---- MODULE Spec2Model ----
(***************************************************************************)
(* drifter: schema-evolution tracking for tabular data.                    *)
(*                                                                         *)
(* The repository holds two registrars that persist a per-source history  *)
(* artifact: drifter.register (src/drifter/__init__.py), which compares    *)
(* Polars dtypes, and drifter.schema.register (src/drifter/schema.py),     *)
(* which compares the type hashes it stores.  A behaviour of this model    *)
(* follows one source id through calls of one of them, together with what  *)
(* the environment can do to the artifact and to the process.              *)
(***************************************************************************)
EXTENDS Integers, Sequences, FiniteSets, TLC

VARIABLES
    module,     \* which registrar the caller imported
    layout,     \* identity hashes of the dtype classes in the running process
    file,       \* the persisted artifact of the source id
    clock,      \* number of register calls made so far; datetime.now of the next
    df,         \* the DataFrame (its schema) passed to the last call
    before,     \* the artifact as the last call found it
    changes,    \* the value the last call returned (NoChanges if it raised)
    err,        \* the exception the last call raised, "none" if it returned
    op,         \* the last step taken
    tampered,   \* the environment has touched the store: its content or its permissions
    access,     \* what the process may do with the artifact: "rw", "ro" or "none"
    nonEmpty,   \* number of calls so far that returned a truthy result
    sources,    \* for each persisted version, the frame of the call that appended it
    arg,        \* the argument of the last call of a function of drifter.core
    ret,        \* what that call returned or raised
    disk,       \* the artifact at every path of the store directory
    solo,       \* for each source id, the artifact its calls alone would have left
    sid,        \* the source id of the last call
    procs       \* for each of two concurrent callers, where it is in register

vars == <<module, layout, file, clock, df, before, changes, err, op, tampered,
          access, nonEmpty, sources, arg, ret, disk, solo, sid, procs>>

(* Bound on the number of register calls of one behaviour. *)
MaxCalls == 3

------------------------------------------------------------------------------
(* Polars dtypes: the class, the inner dtype of List/Array, the size of an *)
(* Array and the member fields of a Struct.  An absent part is <<>> or 0.  *)

Prim(k) == [k |-> k, inner |-> <<>>, size |-> 0, fields |-> <<>>]
Int64 == Prim("Int64")
String == Prim("String")
List(d) == [k |-> "List", inner |-> <<d>>, size |-> 0, fields |-> <<>>]
Array(d, n) == [k |-> "Array", inner |-> <<d>>, size |-> n, fields |-> <<>>]
Struct(fs) == [k |-> "Struct", inner |-> <<>>, size |-> 0, fields |-> fs]

(* A column of a DataFrame schema, or a member field of a Struct. *)
Col(n, d) == [name |-> n, dtype |-> d]

(* The dtypes the single column of a one-column frame takes. *)
DTypes ==
    { Int64,
      List(Int64), List(String), List(List(Int64)), List(List(String)),
      Struct(<<Col("x", Int64)>>), Struct(<<Col("x", String)>>),
      Struct(<<Col("y", Int64)>>) }

(* The DataFrames passed to register: their schemas, in column order. *)
Frames ==
    {<<>>}
    \cup { <<Col("a", d)>> : d \in DTypes }
    \cup { <<Col("b", Int64)>>,
           <<Col("a", Int64), Col("b", String)>>,
           <<Col("b", String), Col("a", Int64)>>,
           <<Col("a", String), Col("b", String)>>,
           <<Col("a", Array(Int64, 2)), Col("b", String)>>,
           <<Col("a", Array(Int64, 3)), Col("b", String)>> }

Names(schema) == { schema[i].name : i \in 1..Len(schema) }

(* schema[name] of a Polars schema (an ordered mapping with unique keys). *)
DTypeOf(schema, n) ==
    LET i == CHOOSE j \in 1..Len(schema) : schema[j].name = n IN schema[i].dtype

------------------------------------------------------------------------------
(* The artifact: absent, text that json cannot parse, a JSON list, or a    *)
(* JSON value that is not a list.                                          *)

Absent == [kind |-> "absent", versions |-> <<>>]
Garbage == [kind |-> "garbage", versions |-> <<>>]
HistoryFile(h) == [kind |-> "history", versions |-> h]

(* The text json.dumps gives for a list, as the pieces a write may be cut  *)
(* between: the brackets, the commas and the items; a cut inside an item   *)
(* leaves a part of it.                                                    *)
Tok(s) == [t |-> s]
Item(v) == [t |-> "item", v |-> v]
Part(v) == [t |-> "part", v |-> v]

JsonDumps(h) ==
    IF h = <<>> THEN <<Tok("["), Tok("]")>>
    ELSE [i \in 1..(2 * Len(h) + 1) |->
             IF i = 1 THEN Tok("[")
             ELSE IF i = 2 * Len(h) + 1 THEN Tok("]")
             ELSE IF i % 2 = 0 THEN Item(h[i \div 2])
             ELSE Tok(",")]

(* A parser that takes a list without its closing bracket. *)
JsonLoadsLenient(text) ==
    LET n == Len(text)
        m == IF n >= 1 /\ text[n].t = "]" THEN n - 1 ELSE n
        ok == /\ n >= 1
              /\ text[1].t = "["
              /\ \A i \in 2..m : IF i % 2 = 0 THEN text[i].t = "item"
                                   ELSE text[i].t = ","
              /\ (m >= 2 => m % 2 = 0)
    IN [ok |-> ok,
        value |-> IF ok THEN [j \in 1..(m \div 2) |-> text[2 * j].v] ELSE <<>>]

(* json.loads of a text: a list parses when it is closed and its items are *)
(* whole and separated by commas; anything else is a JSONDecodeError.      *)
JsonLoads(text) ==
    LET n == Len(text)
        ok == /\ n >= 2
              /\ text[1].t = "["
              /\ text[n].t = "]"
              /\ \A i \in 2..(n - 1) : IF i % 2 = 0 THEN text[i].t = "item"
                                       ELSE text[i].t = ","
              /\ (n > 2 => n % 2 = 1)
    IN [ok |-> ok,
        value |-> IF ok THEN [j \in 1..((n - 1) \div 2) |-> text[2 * j].v] ELSE <<>>]

(* What a write that stops early leaves of a text: every prefix of its     *)
(* pieces, and every prefix that ends inside an item.                      *)
WrittenPrefixes(text) ==
    { SubSeq(text, 1, k) : k \in 0..Len(text) }
    \cup { Append(SubSeq(text, 1, k - 1), Part(text[k].v)) :
             k \in { i \in 1..Len(text) : text[i].t = "item" } }

(* The artifact that holds a text.  The registrars read the artifact       *)
(* through json only, so the texts json cannot parse are one artifact.     *)
ArtifactOfText(text) ==
    IF JsonLoads(text).ok THEN HistoryFile(JsonLoads(text).value) ELSE Garbage

(* A JSON object in place of the list: {} is falsy, {"k": 1} is truthy. *)
JsonObject(truthy) == [json |-> "object", truthy |-> truthy]
JsonValue(v) == [kind |-> "value", versions |-> <<>>, value |-> v]

(* Entries of a JSON list that are not versions register wrote: a number,  *)
(* and a record whose "dataframe" text does not decode to a DataFrame.     *)
NumberEntry == [number |-> 1]
UndecodableEntry == [dataframe |-> <<"b64", <<"bytes">>>>, timestamp |-> 0]

(* Parseable artifacts that are not a history of versions. *)
InvalidArtifacts ==
    { JsonValue(JsonObject(FALSE)), JsonValue(JsonObject(TRUE)),
      HistoryFile(<<NumberEntry>>), HistoryFile(<<UndecodableEntry>>) }

(* The persisted history as a reader of the artifact finds it. *)
Versions(f) == IF f.kind = "history" THEN f.versions ELSE <<>>

(* A SchemaChange with nothing in it. *)
NoChanges == [added |-> <<>>, removed |-> <<>>, changed |-> {}]

------------------------------------------------------------------------------
(* drifter.register (src/drifter/__init__.py)                              *)

(* DataFrame.serialize / deserialize and base64: the stored value carries  *)
(* the schema of the frame behind two wrappers.                            *)
SerializeDF(d) == <<"polars", d>>
DeserializeDF(s) == s[2]
B64Encode(b) == <<"b64", b>>
B64Decode(s) == s[2]

ColumnChange(n, old, new) == [name |-> n, old_type |-> old, new_type |-> new]

(* SchemaChange.__bool__ *)
ChangeBool(c) == c.added # <<>> \/ c.removed # <<>> \/ c.changed # {}

(* _load_history: an absent file and a JSONDecodeError both give [];       *)
(* otherwise whatever json.loads returns, a list or not.                   *)
LoadHistory(f) ==
    IF f.kind = "absent" THEN <<>>
    ELSE IF f.kind = "garbage" THEN <<>>
    ELSE IF f.kind = "value" THEN f.value
    ELSE f.versions

(* A save that writes the new version alone. *)
SaveOnlyLatest(h) == HistoryFile(<<h[Len(h)]>>)

(* _save_history: the whole list is written over the file. *)
SaveHistory(h) == HistoryFile(h)

(* A filter that keeps every column. *)
NotInKeepAll(s, other) == s

(* The columns of s, in order, whose name is not a key of other. *)
NotIn(s, other) == SelectSeq(s, LAMBDA c : c.name \notin Names(other))

(* The position of a column in a schema. *)
IndexOf(schema, n) == CHOOSE j \in 1..Len(schema) : schema[j].name = n

(* A comparison that reports every common column as changed. *)
CompareSchemasAllCommon(old_df, new_df) ==
    LET a == SelectSeq(new_df, LAMBDA c : c.name \notin Names(old_df))
        r == SelectSeq(old_df, LAMBDA c : c.name \notin Names(new_df))
    IN [added   |-> [i \in 1..Len(a) |-> [name |-> a[i].name, old_type |-> <<>>,
                                           new_type |-> <<a[i].dtype>>]],
        removed |-> [i \in 1..Len(r) |-> [name |-> r[i].name,
                                           old_type |-> <<r[i].dtype>>,
                                           new_type |-> <<>>]],
        changed |-> { [name |-> n, old_type |-> <<DTypeOf(old_df, n)>>,
                       new_type |-> <<DTypeOf(new_df, n)>>] :
                        n \in Names(old_df) \cap Names(new_df) }]

(* A comparison that also reports a column whose position moved. *)
CompareSchemasPositional(old_df, new_df) ==
    LET a == SelectSeq(new_df, LAMBDA c : c.name \notin Names(old_df))
        r == SelectSeq(old_df, LAMBDA c : c.name \notin Names(new_df))
    IN [added   |-> [i \in 1..Len(a) |-> [name |-> a[i].name, old_type |-> <<>>,
                                           new_type |-> <<a[i].dtype>>]],
        removed |-> [i \in 1..Len(r) |-> [name |-> r[i].name,
                                           old_type |-> <<r[i].dtype>>,
                                           new_type |-> <<>>]],
        changed |-> { [name |-> n, old_type |-> <<DTypeOf(old_df, n)>>,
                       new_type |-> <<DTypeOf(new_df, n)>>] :
                        n \in { m \in Names(old_df) \cap Names(new_df) :
                                  \/ DTypeOf(old_df, m) # DTypeOf(new_df, m)
                                  \/ IndexOf(old_df, m) # IndexOf(new_df, m) } }]

(* _compare_schemas.  added and removed are lists in schema order; changed  *)
(* is built from an iteration over a set of keys, whose order Python does   *)
(* not fix, and is kept as a set.                                           *)
CompareSchemas(old_df, new_df) ==
    LET a == NotIn(new_df, old_df)
        r == NotIn(old_df, new_df)
    IN [added   |-> [i \in 1..Len(a) |-> ColumnChange(a[i].name, <<>>, <<a[i].dtype>>)],
        removed |-> [i \in 1..Len(r) |-> ColumnChange(r[i].name, <<r[i].dtype>>, <<>>)],
        changed |-> { ColumnChange(n, <<DTypeOf(old_df, n)>>, <<DTypeOf(new_df, n)>>) :
                        n \in { m \in Names(old_df) \cap Names(new_df) :
                                  DTypeOf(old_df, m) # DTypeOf(new_df, m) } }]

(* An initial result that misses the last column. *)
InitialChangesSkipLast(d) ==
    [added   |-> [i \in 1..(Len(d) - 1) |->
                     [name |-> d[i].name, old_type |-> <<>>, new_type |-> <<d[i].dtype>>]],
     removed |-> <<>>,
     changed |-> {}]

(* The result of the initial registration: every column is added. *)
InitialChanges(d) ==
    [added   |-> [i \in 1..Len(d) |-> ColumnChange(d[i].name, <<>>, <<d[i].dtype>>)],
     removed |-> <<>>,
     changed |-> {}]

(* A register that never looks at the history it loaded. *)
RegisterChangesNoHistory(history, d) ==
    [added   |-> [i \in 1..Len(d) |->
                     [name |-> d[i].name, old_type |-> <<>>, new_type |-> <<d[i].dtype>>]],
     removed |-> <<>>,
     changed |-> {}]

(* A register that compares with the oldest version it loaded. *)
RegisterChangesOldest(history, d) ==
    IF history = <<>>
    THEN InitialChanges(d)
    ELSE CompareSchemas(DeserializeDF(B64Decode(history[1].dataframe)), d)

(* The SchemaChange register computes from the loaded history. *)
RegisterChanges(history, d) ==
    IF history = <<>>
    THEN InitialChanges(d)
    ELSE CompareSchemas(
             DeserializeDF(B64Decode(history[Len(history)].dataframe)), d)

(* The version register appends. *)
NewVersion(d, now) ==
    [dataframe |-> B64Encode(SerializeDF(d)), timestamp |-> now]

(* An append at the wrong end. *)
PrependVersion(history, v) == <<v>> \o history

(* history.append *)
AppendVersion(history, v) == Append(history, v)

(* file.exists() followed by file.read_text(): an artifact that is there   *)
(* and may not be read raises PermissionError, which _load_history does    *)
(* not catch.                                                              *)
LoadError(f, a) ==
    IF f.kind # "absent" /\ a = "none" THEN "PermissionError" ELSE "none"

(* A save that hides the error of the write. *)
SaveErrorSwallowed(a) == "none"

(* file.write_text in _save_history: without the permission to write it    *)
(* raises PermissionError before a byte is written.                        *)
SaveError(a) == IF a # "rw" THEN "PermissionError" ELSE "none"

(* The exception raised while the latest entry of a non-empty list is read *)
(* back: latest["dataframe"] of a number, or the decoding of a text that   *)
(* is not a serialized DataFrame; "none" when the entry decodes.           *)
LatestError(history) ==
    LET latest == history[Len(history)]
    IN IF "dataframe" \notin DOMAIN latest THEN "TypeError"
       ELSE IF latest.dataframe[2][1] # "polars" THEN "ComputeError"
       ELSE "none"

(* The exception that leaves register for the artifact f and the frame d,  *)
(* "none" when register returns.  A truthy object has no key -1; a falsy   *)
(* object has no append, which is called when the result is truthy.        *)
RegisterError(f, d) ==
    IF f.kind = "value"
    THEN IF LoadHistory(f).truthy THEN "KeyError"
         ELSE IF ChangeBool(InitialChanges(d)) THEN "AttributeError"
         ELSE "none"
    ELSE IF LoadHistory(f) = <<>> THEN "none"
    ELSE LatestError(LoadHistory(f))

(* register(dataframe, source_id) as a function of what it finds and is    *)
(* given: the artifact f of the source id, the access a of the process,    *)
(* the frame d and the time now.  It gives the exception raised ("none"    *)
(* when it returns), the SchemaChange returned and the artifact left.      *)
RegisterOutcome(f, a, d, now) ==
    IF LoadError(f, a) # "none"
    THEN [err |-> LoadError(f, a), changes |-> NoChanges, file |-> f]
    ELSE IF RegisterError(f, d) # "none"
    THEN [err |-> RegisterError(f, d), changes |-> NoChanges, file |-> f]
    ELSE LET history == IF f.kind = "value" THEN <<>> ELSE LoadHistory(f)
             c == RegisterChanges(history, d)
         IN IF ChangeBool(c) /\ SaveError(a) # "none"
            THEN [err |-> SaveError(a), changes |-> NoChanges, file |-> f]
            ELSE [err |-> "none",
                  changes |-> c,
                  file |-> IF ChangeBool(c)
                           THEN SaveHistory(AppendVersion(history, NewVersion(d, now)))
                           ELSE f]

Register(d) ==
    /\ module = "drifter"
    /\ clock < MaxCalls
    /\ LET o == RegisterOutcome(file, access, d, clock)
           history == IF file.kind \in {"value", "garbage"} THEN <<>> ELSE Versions(file)
       IN /\ err' = o.err
          /\ changes' = o.changes
          /\ file' = o.file
          /\ nonEmpty' = IF ChangeBool(o.changes) THEN nonEmpty + 1 ELSE nonEmpty
          /\ sources' = IF ChangeBool(o.changes)
                        THEN Append(IF history = <<>> THEN <<>> ELSE sources, d)
                        ELSE sources
    /\ df' = d
    /\ before' = file
    /\ clock' = clock + 1
    /\ op' = "register"
    /\ UNCHANGED <<disk, solo, sid, procs, arg, ret, module, layout, tampered, access>>

------------------------------------------------------------------------------
(* drifter.schema.register (src/drifter/schema.py)                         *)

(* The dtype classes whose objects are hashed. *)
Classes == {"Int64", "String", "List", "Array", "Struct", "Decimal", "Object"}

(* hash(cls) of a class is its identity hash, fixed within one process and  *)
(* free to differ between processes.  Two layouts are followed: in the      *)
(* second the Int64 and the String class have taken each other's place.     *)
LayoutA == [c \in Classes |->
              CASE c = "Int64" -> 1 [] c = "String" -> 2 [] c = "List" -> 3
                [] c = "Array" -> 4 [] c = "Struct" -> 5
                [] c = "Decimal" -> 6 [] c = "Object" -> 7]
LayoutB == [LayoutA EXCEPT !["Int64"] = LayoutA["String"],
                           !["String"] = LayoutA["Int64"]]
Layouts == {LayoutA, LayoutB}

(* hash(str) of a Struct member name. *)
StrHash(s) == CASE s = "x" -> 1 [] s = "y" -> 2 [] OTHER -> 3

(* hash(tuple): the lanes are folded into the length, injectively. *)
Pair(x, y) == ((x + y) * (x + y + 1)) \div 2 + y

RECURSIVE TupleFold(_, _, _)
TupleFold(acc, lanes, i) ==
    IF i > Len(lanes) THEN acc ELSE TupleFold(Pair(acc, lanes[i]), lanes, i + 1)

TupleHash(lanes) == TupleFold(Len(lanes), lanes, 1)

(* hash(dtype): Polars hashes the class of a flat dtype, and the class      *)
(* together with the parameters of a nested one.                            *)
RECURSIVE TypeHash(_, _)
TypeHash(d, lay) ==
    CASE d.k = "List" ->
           TupleHash(<<lay["List"], TypeHash(d.inner[1], lay)>>)
      [] d.k = "Array" ->
           TupleHash(<<lay["Array"], TypeHash(d.inner[1], lay), d.size>>)
      [] d.k = "Struct" ->
           TupleHash(<<lay["Struct"],
                       TupleHash([i \in 1..Len(d.fields) |->
                           TupleHash(<<StrHash(d.fields[i].name),
                                       TypeHash(d.fields[i].dtype, lay)>>)])>>)
      [] OTHER -> lay[d.k]

(* _get_base_dtype: the DType and bit width of a flat dtype; a dtype the    *)
(* map does not hold is a string.                                           *)
GetBaseDtype(d) ==
    CASE d.k = "String" -> <<"string", <<>>>>
      [] d.k = "Int64" -> <<"int", <<64>>>>
      [] d.k = "Object" -> <<"object", <<>>>>
      [] OTHER -> <<"string", <<>>>>

(* A Field dict; the keys a variant does not have are <<>> or 0. *)
MkField(n, dt, h, bw, inner, size, fields) ==
    [name |-> n, dtype |-> dt, type_hash |-> h, bit_width |-> bw,
     inner |-> inner, size |-> size, fields |-> fields]

(* _polars_type_to_field *)
RECURSIVE PolarsTypeToField(_, _, _)
PolarsTypeToField(n, d, lay) ==
    CASE d.k = "List" ->
           MkField(n, "list", TypeHash(d, lay), <<>>,
                   <<PolarsTypeToField("inner", d.inner[1], lay)>>, 0, <<>>)
      [] d.k = "Array" ->
           MkField(n, "array", TypeHash(d, lay), <<>>,
                   <<PolarsTypeToField("inner", d.inner[1], lay)>>, d.size, <<>>)
      [] d.k = "Struct" ->
           MkField(n, "struct", TypeHash(d, lay), <<>>, <<>>, 0,
                   [i \in 1..Len(d.fields) |->
                       PolarsTypeToField(d.fields[i].name, d.fields[i].dtype, lay)])
      [] OTHER ->
           LET base == GetBaseDtype(d)
           IN MkField(n, base[1], TypeHash(d, lay), base[2], <<>>, 0, <<>>)

(* json.load in register: a text that does not parse raises, and nothing  *)
(* catches it.                                                             *)
SchemaLoadError(f) == IF f.kind = "garbage" THEN "JSONDecodeError" ELSE "none"

(* _are_fields_equal *)
AreFieldsEqual(field1, field2) == field1.type_hash = field2.type_hash

(* _create_schema: the fields in column order, each under its name. *)
CreateSchema(d, lay) ==
    [version |-> "1.0",
     fields  |-> [i \in 1..Len(d) |-> PolarsTypeToField(d[i].name, d[i].dtype, lay)]]

(* schema["fields"][name] *)
FieldOf(schema, n) ==
    LET i == CHOOSE j \in 1..Len(schema.fields) : schema.fields[j].name = n
    IN schema.fields[i]

(* set(schema["fields"]) *)
FieldNames(schema) == { schema.fields[i].name : i \in 1..Len(schema.fields) }

(* A dict from names to values, as register returns them. *)
DictOf(keys, Val(_)) == [n \in keys |-> Val(n)]

SchemaNoChanges ==
    [added   |-> DictOf({}, LAMBDA n : n),
     removed |-> DictOf({}, LAMBDA n : n),
     changed |-> DictOf({}, LAMBDA n : n)]

(* SchemaChanges.has_changes / __bool__ *)
HasChanges(c) ==
    DOMAIN c.added # {} \/ DOMAIN c.removed # {} \/ DOMAIN c.changed # {}

(* The result of the branch taken when the file does not exist. *)
SchemaInitialChanges(current) ==
    [added   |-> DictOf(FieldNames(current), LAMBDA n : FieldOf(current, n)),
     removed |-> DictOf({}, LAMBDA n : n),
     changed |-> DictOf({}, LAMBDA n : n)]

(* The added, removed and changed dicts against the previous schema. *)
SchemaDiff(prev, current) ==
    [added   |-> DictOf(FieldNames(current) \ FieldNames(prev),
                        LAMBDA n : FieldOf(current, n)),
     removed |-> DictOf(FieldNames(prev) \ FieldNames(current),
                        LAMBDA n : FieldOf(prev, n)),
     changed |-> DictOf({ n \in FieldNames(current) \cap FieldNames(prev) :
                            ~AreFieldsEqual(FieldOf(current, n), FieldOf(prev, n)) },
                        LAMBDA n : [field |-> n, old |-> FieldOf(prev, n),
                                    new |-> FieldOf(current, n)])]

(* register(df, name) of drifter.schema as a function of what it finds and *)
(* is given: the artifact f of the name, the access a of the process, the  *)
(* frame d and the identity hashes lay of the process.  It gives the       *)
(* exception raised ("none" when it returns), the SchemaChanges returned   *)
(* and the artifact left.                                                  *)
SchemaOutcome(f, a, d, lay) ==
    LET current == CreateSchema(d, lay)
        raised(e) == [err |-> e, changes |-> SchemaNoChanges, file |-> f]
    IN IF f.kind = "absent" /\ SaveError(a) # "none"
       THEN \* schema_file.open("w") raises
            raised(SaveError(a))
       ELSE IF LoadError(f, a) # "none"
       THEN \* schema_file.open() raises
            raised(LoadError(f, a))
       ELSE IF f.kind = "absent"
       THEN \* the history is initialised with the current schema
            [err |-> "none", changes |-> SchemaInitialChanges(current),
             file |-> HistoryFile(<<current>>)]
       ELSE IF SchemaLoadError(f) # "none"
       THEN \* json.load raises, nothing catches it
            raised(SchemaLoadError(f))
       ELSE IF f.kind = "value"
       THEN \* history[-1] of an object
            raised("KeyError")
       ELSE IF "fields" \notin DOMAIN f.versions[Len(f.versions)]
       THEN \* prev_schema["fields"] of an entry that is not a schema
            raised(IF f.versions[Len(f.versions)] = NumberEntry
                   THEN "TypeError" ELSE "KeyError")
       ELSE LET history == f.versions
                c == SchemaDiff(history[Len(history)], current)
            IN IF HasChanges(c) /\ SaveError(a) # "none"
               THEN \* schema_file.open("w") raises
                    raised(SaveError(a))
               ELSE [err |-> "none", changes |-> c,
                     file |-> IF HasChanges(c)
                              THEN HistoryFile(AppendVersion(history, current))
                              ELSE f]

SchemaRegister(d) ==
    /\ module = "drifter.schema"
    /\ clock < MaxCalls
    /\ LET o == SchemaOutcome(file, access, d, layout)
       IN /\ err' = o.err
          /\ changes' = o.changes
          /\ file' = o.file
          /\ nonEmpty' = IF o.err = "none" /\ HasChanges(o.changes)
                         THEN nonEmpty + 1 ELSE nonEmpty
          /\ sources' = IF o.file # file THEN Append(sources, d) ELSE sources
    /\ df' = d
    /\ before' = file
    /\ clock' = clock + 1
    /\ op' = "register"
    /\ UNCHANGED <<disk, solo, sid, procs, arg, ret, module, layout, tampered, access>>

------------------------------------------------------------------------------
(* The Field model (src/drifter/core.py) and the Polars adapter            *)
(* (src/drifter/polars.py).  A Field is a record of its dataclass          *)
(* attributes; dataclass equality compares the class and every attribute.  *)

BooleanField(nullable) == [type |-> "Boolean", nullable |-> nullable]
StringField(nullable) == [type |-> "String", nullable |-> nullable]
BinaryField(nullable) == [type |-> "Binary", nullable |-> nullable]
DateField(nullable) == [type |-> "Date", nullable |-> nullable]
DatetimeField(nullable) == [type |-> "Datetime", nullable |-> nullable]
IntegerField(nullable, bits, signed) ==
    [type |-> "Integer", nullable |-> nullable, bits |-> bits, signed |-> signed]
FloatField(nullable, bits) == [type |-> "Float", nullable |-> nullable, bits |-> bits]
CategoricalField(nullable, ordered) ==
    [type |-> "Categorical", nullable |-> nullable, ordered |-> ordered]
EnumField(nullable, variants) ==
    [type |-> "Enum", nullable |-> nullable, variants |-> variants]

DurationField(nullable) == [type |-> "Duration", nullable |-> nullable]
TimeField(nullable) == [type |-> "Time", nullable |-> nullable]
NullField(nullable) == [type |-> "Null", nullable |-> nullable]

(* ListField: an inner Field. *)
ListField(nullable, inner) ==
    [type |-> "List", nullable |-> nullable, inner |-> inner]

(* ArrayField: an inner Field, a shape and a width; <<>> is None, <<x>> is  *)
(* the value x.                                                            *)
ArrayField(nullable, inner, shape, width) ==
    [type |-> "Array", nullable |-> nullable, inner |-> inner,
     shape |-> shape, width |-> width]

(* A mapping from names to Fields is a dict: its items in insertion order, *)
(* each name once.  The dict built from a run of items keeps each name at  *)
(* the place of its first item, with the Field of its last.                *)
DictFromItems(items) ==
    LET idx == [i \in 1..Len(items) |-> i]
        first == SelectSeq(idx, LAMBDA i : \A j \in 1..(i - 1) :
                                              items[j].name # items[i].name)
        last(n) == CHOOSE i \in 1..Len(items) :
                      /\ items[i].name = n
                      /\ \A j \in (i + 1)..Len(items) : items[j].name # n
    IN [k \in 1..Len(first) |->
           [name |-> items[first[k]].name,
            field |-> items[last(items[first[k]].name)].field]]

(* StructField.fields is such a dict. *)
StructField(nullable, fields) ==
    [type |-> "Struct", nullable |-> nullable, fields |-> fields]

(* SequenceField, which the adapter imports from drifter.core: an inner    *)
(* Field and an optional size, <<>> for None.                              *)
SequenceField(nullable, inner, size) ==
    [type |-> "Sequence", nullable |-> nullable, inner |-> inner, size |-> size]

(* What a call gives: a Field, None, or a raised error. *)
Some(f) == [tag |-> "field", field |-> f]
None == [tag |-> "none"]
Raise(e) == [tag |-> "raise", error |-> e]
RaiseTypeError == [tag |-> "raise", error |-> "TypeError"]

------------------------------------------------------------------------------
(* Serialized forms (src/drifter/core.py).  A structured value is a Python  *)
(* value: a bool, an int, a str, None, a list, or a dict whose entries keep *)
(* their insertion order.                                                   *)

PyBool(b) == [bool |-> b]
PyInt(n) == [int |-> n]
PyStr(s) == [str |-> s]
PyNone == [none |-> TRUE]
PyList(xs) == [list |-> xs]
PyDict(entries) == [dict |-> entries]
Entry(k, v) == [key |-> k, val |-> v]

IsDict(v) == "dict" \in DOMAIN v

(* k in d, d[k] and d.get(k) of a dict d *)
DictKeys(d) == { d.dict[i].key : i \in 1..Len(d.dict) }
DictHas(d, k) == k \in DictKeys(d)
DictItem(d, k) == d.dict[CHOOSE i \in 1..Len(d.dict) : d.dict[i].key = k].val
DictGet(d, k) == IF DictHas(d, k) THEN DictItem(d, k) ELSE PyNone

(* The value an attribute holds for a Python value: no constructor checks  *)
(* what it is given.  An optional attribute is <<>> for None.              *)
RECURSIVE FromPy(_)
FromPy(v) ==
    CASE "bool" \in DOMAIN v -> v.bool
      [] "int" \in DOMAIN v -> v.int
      [] "str" \in DOMAIN v -> v.str
      [] "list" \in DOMAIN v -> [i \in 1..Len(v.list) |-> FromPy(v.list[i])]
      [] OTHER -> <<>>

Optional(v) == IF v = PyNone THEN <<>> ELSE <<FromPy(v)>>

(* dataclasses.asdict of the attributes every Field has, in field order *)
BaseDict(f) == <<Entry("nullable", PyBool(f.nullable)), Entry("type", PyStr(f.type))>>

(* asdict of the attributes of ArrayField after the inner Field, without   *)
(* the width                                                               *)
ArraySizeDictNoWidth(f) ==
    <<Entry("shape", IF f.shape = <<>> THEN PyNone
                     ELSE PyList([i \in 1..Len(f.shape[1]) |-> PyInt(f.shape[1][i])]))>>

(* asdict of the attributes of ArrayField after the inner Field *)
ArraySizeDict(f) ==
    <<Entry("shape", IF f.shape = <<>> THEN PyNone
                     ELSE PyList([i \in 1..Len(f.shape[1]) |-> PyInt(f.shape[1][i])])),
      Entry("width", IF f.width = <<>> THEN PyNone ELSE PyInt(f.width[1]))>>

(* dataclasses.asdict(field): a dict of every attribute in dataclass field *)
(* order, nullable and type first, recursing into Fields, lists and dicts. *)
RECURSIVE AsDict(_)
AsDict(f) ==
    PyDict(BaseDict(f) \o
        CASE f.type = "Float" -> <<Entry("bits", PyInt(f.bits))>>
          [] f.type = "Integer" ->
               <<Entry("bits", PyInt(f.bits)), Entry("signed", PyBool(f.signed))>>
          [] f.type = "List" -> <<Entry("inner", AsDict(f.inner))>>
          [] f.type = "Array" -> <<Entry("inner", AsDict(f.inner))>> \o ArraySizeDict(f)
          [] f.type = "Struct" ->
               <<Entry("fields",
                       PyDict([i \in 1..Len(f.fields) |->
                                  Entry(f.fields[i].name, AsDict(f.fields[i].field))]))>>
          [] f.type = "Categorical" -> <<Entry("ordered", PyBool(f.ordered))>>
          [] f.type = "Enum" ->
               <<Entry("variants",
                       PyList([i \in 1..Len(f.variants) |-> PyStr(f.variants[i])]))>>
          [] OTHER -> <<>>)

(* FIELD_CLASSES with a class for "Sequence", "Field" and "Decimal" too   *)
FieldClassesAny ==
    [t \in {"Binary", "Boolean", "Categorical", "Date", "Datetime", "Duration",
            "Enum", "Float", "Integer", "Null", "String", "Time",
            "Sequence", "Field", "Decimal"} |->
        CASE t = "Float" -> [required |-> {"bits"}, optional |-> {}]
          [] t = "Integer" -> [required |-> {"bits", "signed"}, optional |-> {}]
          [] t = "Categorical" -> [required |-> {}, optional |-> {"ordered"}]
          [] t = "Enum" -> [required |-> {"variants"}, optional |-> {}]
          [] OTHER -> [required |-> {}, optional |-> {}]]

(* FIELD_CLASSES without the three nested classes, which field_from_dict   *)
(* builds itself: the parameters each constructor requires besides         *)
(* nullable, and those it accepts.                                         *)
FIELD_CLASSES ==
    [t \in {"Binary", "Boolean", "Categorical", "Date", "Datetime", "Duration",
            "Enum", "Float", "Integer", "Null", "String", "Time"} |->
        CASE t = "Float" -> [required |-> {"bits"}, optional |-> {}]
          [] t = "Integer" -> [required |-> {"bits", "signed"}, optional |-> {}]
          [] t = "Categorical" -> [required |-> {}, optional |-> {"ordered"}]
          [] t = "Enum" -> [required |-> {"variants"}, optional |-> {}]
          [] OTHER -> [required |-> {}, optional |-> {}]]

(* field_cls(k=v, ...) over the items of data other than "type": a        *)
(* constructor stores what it is given.                                    *)
ConstructField(t, data) ==
    LET keys == DictKeys(data) \ {"type"}
        params == FIELD_CLASSES[t]
        at(k) == FromPy(DictItem(data, k))
    IN IF ~ ({"nullable"} \cup params.required \subseteq keys)
          \/ ~ (keys \subseteq {"nullable"} \cup params.required \cup params.optional)
       THEN Raise("TypeError")
       ELSE CASE t = "Float" -> Some(FloatField(at("nullable"), at("bits")))
              [] t = "Integer" ->
                   Some(IntegerField(at("nullable"), at("bits"), at("signed")))
              [] t = "Categorical" ->
                   Some(CategoricalField(at("nullable"),
                            IF "ordered" \in keys THEN at("ordered") ELSE FALSE))
              [] t = "Enum" -> Some(EnumField(at("nullable"), at("variants")))
              [] OTHER -> Some([type |-> t, nullable |-> at("nullable")])

(* ArrayField(nullable=.., inner=.., shape=data.get("shape")) with the     *)
(* width left at its default                                               *)
ArrayFromDictNoWidth(data, inner) ==
    ArrayField(FromPy(DictItem(data, "nullable")), inner,
               Optional(DictGet(data, "shape")), <<>>)

(* ArrayField(nullable=.., inner=.., shape=data.get("shape"),              *)
(*            width=data.get("width"))                                     *)
ArrayFromDict(data, inner) ==
    ArrayField(FromPy(DictItem(data, "nullable")), inner,
               Optional(DictGet(data, "shape")), Optional(DictGet(data, "width")))

(* field_from_dict(data).  Subscripting a value that is not a mapping      *)
(* raises TypeError, a missing key KeyError, .items() of a value that is   *)
(* not a mapping AttributeError, a tag FIELD_CLASSES does not hold         *)
(* ValueError("Unknown field type: ..."), and a constructor given a        *)
(* keyword it does not take, or not given one it requires, TypeError.      *)
(* The arguments of a constructor are evaluated in order, and the first    *)
(* error leaves.                                                           *)
RECURSIVE FieldFromDict(_)
FieldFromDict(data) ==
    IF ~IsDict(data) THEN Raise("TypeError")
    ELSE IF ~DictHas(data, "type") THEN Raise("KeyError")
    ELSE LET field_type == DictItem(data, "type")
         IN IF field_type \in {PyStr("List"), PyStr("Array")}
            THEN IF ~DictHas(data, "nullable") \/ ~DictHas(data, "inner")
                 THEN Raise("KeyError")
                 ELSE LET inner == FieldFromDict(DictItem(data, "inner"))
                      IN IF inner.tag = "raise" THEN inner
                         ELSE IF field_type = PyStr("List")
                         THEN Some(ListField(FromPy(DictItem(data, "nullable")),
                                             inner.field))
                         ELSE Some(ArrayFromDict(data, inner.field))
            ELSE IF field_type = PyStr("Struct")
            THEN IF ~DictHas(data, "nullable") \/ ~DictHas(data, "fields")
                 THEN Raise("KeyError")
                 ELSE IF ~IsDict(DictItem(data, "fields"))
                 THEN Raise("AttributeError")
                 ELSE LET items == DictItem(data, "fields").dict
                          member == [i \in 1..Len(items) |-> FieldFromDict(items[i].val)]
                          bad == { i \in 1..Len(items) : member[i].tag = "raise" }
                      IN IF bad # {}
                         THEN member[CHOOSE i \in bad : \A j \in bad : i <= j]
                         ELSE Some(StructField(FromPy(DictItem(data, "nullable")),
                                      [i \in 1..Len(items) |->
                                          [name |-> items[i].key,
                                           field |-> member[i].field]]))
            ELSE IF \/ "str" \notin DOMAIN field_type
                    \/ field_type.str \notin DOMAIN FIELD_CLASSES
            THEN Raise("ValueError")
            ELSE ConstructField(field_type.str, data)

(* == of two dicts of Fields, taken item by item in insertion order *)
DictEqOrdered(a, b, eq) ==
    /\ Len(a) = Len(b)
    /\ \A i \in 1..Len(a) : a[i].name = b[i].name /\ eq[i][i]

(* == of two dicts of Fields: as many items, and every key of one a key of *)
(* the other with an equal value; eq[i][j] is the == of the i-th value of  *)
(* a and the j-th value of b.                                              *)
DictEq(a, b, eq) ==
    /\ Len(a) = Len(b)
    /\ \A i \in 1..Len(a) :
          \E j \in 1..Len(b) : a[i].name = b[j].name /\ eq[i][j]

(* The __eq__ a dataclass generates: the same class, and the tuples of     *)
(* attributes equal item by item; a Field attribute by its own __eq__, a   *)
(* list in order, a dict as DictEq.                                        *)
RECURSIVE FieldEq(_, _)
FieldEq(f, g) ==
    /\ f.type = g.type
    /\ f.nullable = g.nullable
    /\ CASE f.type = "Float" -> f.bits = g.bits
         [] f.type = "Integer" -> f.bits = g.bits /\ f.signed = g.signed
         [] f.type = "List" -> FieldEq(f.inner, g.inner)
         [] f.type = "Array" ->
              FieldEq(f.inner, g.inner) /\ f.shape = g.shape /\ f.width = g.width
         [] f.type = "Sequence" -> FieldEq(f.inner, g.inner) /\ f.size = g.size
         [] f.type = "Struct" ->
              DictEq(f.fields, g.fields,
                     [i \in 1..Len(f.fields) |-> [j \in 1..Len(g.fields) |->
                         FieldEq(f.fields[i].field, g.fields[j].field)]])
         [] f.type = "Categorical" -> f.ordered = g.ordered
         [] f.type = "Enum" -> f.variants = g.variants
         [] OTHER -> TRUE

(* Schema(fields): a dict of Fields by column name. *)
Schema(fields) == [fields |-> fields]

(* Schema.to_dict *)
SchemaToDict(s) ==
    PyDict(<<Entry("fields",
                   PyDict([i \in 1..Len(s.fields) |->
                              Entry(s.fields[i].name, AsDict(s.fields[i].field))]))>>)

(* Schema.from_dict: the items in order, the first error leaves. *)
SchemaFromDict(data) ==
    IF ~IsDict(data) THEN Raise("TypeError")
    ELSE IF ~DictHas(data, "fields") THEN Raise("KeyError")
    ELSE IF ~IsDict(DictItem(data, "fields")) THEN Raise("AttributeError")
    ELSE LET items == DictItem(data, "fields").dict
             member == [i \in 1..Len(items) |-> FieldFromDict(items[i].val)]
             bad == { i \in 1..Len(items) : member[i].tag = "raise" }
         IN IF bad # {}
            THEN member[CHOOSE i \in bad : \A j \in bad : i <= j]
            ELSE [tag |-> "schema",
                  schema |-> Schema([i \in 1..Len(items) |->
                                        [name |-> items[i].key,
                                         field |-> member[i].field]])]

(* Schema.__eq__ *)
SchemaEq(s, t) ==
    DictEq(s.fields, t.fields,
           [i \in 1..Len(s.fields) |-> [j \in 1..Len(t.fields) |->
               FieldEq(s.fields[i].field, t.fields[j].field)]])

------------------------------------------------------------------------------
(* The Polars adapter (src/drifter/polars.py).                             *)

(* _map_signed_dtype *)
MapSignedDtype(d, nullable) ==
    CASE d.k = "Int8" -> Some(IntegerField(nullable, 8, TRUE))
      [] d.k = "Int16" -> Some(IntegerField(nullable, 16, TRUE))
      [] d.k = "Int32" -> Some(IntegerField(nullable, 32, TRUE))
      [] d.k = "Int64" -> Some(IntegerField(nullable, 64, TRUE))
      [] OTHER -> None

(* _map_unsigned_dtype *)
MapUnsignedDtype(d, nullable) ==
    CASE d.k = "UInt8" -> Some(IntegerField(nullable, 8, FALSE))
      [] d.k = "UInt16" -> Some(IntegerField(nullable, 16, FALSE))
      [] d.k = "UInt32" -> Some(IntegerField(nullable, 32, FALSE))
      [] d.k = "UInt64" -> Some(IntegerField(nullable, 64, FALSE))
      [] OTHER -> None

(* _map_float_dtype *)
MapFloatDtype(d, nullable) ==
    CASE d.k = "Float32" -> Some(FloatField(nullable, 32))
      [] d.k = "Float64" -> Some(FloatField(nullable, 64))
      [] OTHER -> None

(* _map_temporal_dtype: Time and Duration give a DatetimeField as well. *)
MapTemporalDtype(d, nullable) ==
    CASE d.k = "Date" -> Some(DateField(nullable))
      [] d.k = "Datetime" -> Some(DatetimeField(nullable))
      [] d.k = "Time" -> Some(DatetimeField(nullable))
      [] d.k = "Duration" -> Some(DatetimeField(nullable))
      [] OTHER -> None

(* _map_string_dtype *)
MapStringDtype(d, nullable) ==
    CASE d.k \in {"String", "Utf8"} -> Some(StringField(nullable))
      [] d.k = "Binary" -> Some(BinaryField(nullable))
      [] d.k = "Categorical" -> Some(CategoricalField(nullable, TRUE))
      [] d.k = "Enum" -> Some(EnumField(nullable, d.categories))
      [] OTHER -> None

(* _map_polars_dtype, with _map_nested_dtype in its place as the last      *)
(* mapper.  The first case of _map_nested_dtype matches a List and an      *)
(* Array alike and sets size to None; the case after it, which reads the   *)
(* width of an Array, is never reached.  An error raised for an inner      *)
(* dtype leaves through every caller.                                      *)
RECURSIVE MapPolarsDtype(_, _)
MapPolarsDtype(d, nullable) ==
    LET nested ==
            CASE d.k \in {"List", "Array"} ->
                   LET inner == MapPolarsDtype(d.inner[1], nullable)
                   IN IF inner.tag = "raise" THEN inner
                      ELSE Some(SequenceField(nullable, inner.field, <<>>))
              [] d.k = "Struct" ->
                   LET member == [i \in 1..Len(d.fields) |->
                                     MapPolarsDtype(d.fields[i].dtype, nullable)]
                   IN IF \E i \in 1..Len(d.fields) : member[i].tag = "raise"
                      THEN RaiseTypeError
                      ELSE Some(StructField(nullable,
                               DictFromItems([i \in 1..Len(d.fields) |->
                                   [name |-> d.fields[i].name,
                                    field |-> member[i].field]])))
              [] OTHER -> None
        first == <<MapSignedDtype(d, nullable), MapUnsignedDtype(d, nullable),
                   MapFloatDtype(d, nullable), MapTemporalDtype(d, nullable),
                   MapStringDtype(d, nullable)>>
    IN CASE d.k = "Boolean" -> Some(BooleanField(nullable))
         [] d.k = "Null" -> Some(StringField(TRUE))
         [] d.k \in {"Object", "Unknown"} -> RaiseTypeError
         [] OTHER ->
              IF \E i \in 1..Len(first) : first[i].tag = "field"
              THEN first[CHOOSE i \in 1..Len(first) :
                            /\ first[i].tag = "field"
                            /\ \A j \in 1..(i - 1) : first[j].tag # "field"]
              ELSE IF nested.tag = "none" THEN RaiseTypeError ELSE nested

(* from_polars_schema: the Field of every column, all of them nullable, in *)
(* column order; <<>> stands for the TypeError of a column.                *)
FromPolarsSchema(d) ==
    LET col == [i \in 1..Len(d) |-> MapPolarsDtype(d[i].dtype, TRUE)]
    IN IF \E i \in 1..Len(d) : col[i].tag = "raise"
       THEN RaiseTypeError
       ELSE [tag |-> "fields",
             fields |-> [i \in 1..Len(d) |-> [name |-> d[i].name, field |-> col[i].field]]]

------------------------------------------------------------------------------
(* The registrar over Fields.  The tests of register read                  *)
(* history[i]["schema"]["fields"] and compare the result with sets of      *)
(* names; the register that writes that artifact is the one the design     *)
(* describes: adapter, load, diff against the latest version, append and   *)
(* save when the diff is not empty.                                        *)

SchemaNames(fields) == { fields[i].name : i \in 1..Len(fields) }

SchemaField(fields, n) ==
    LET i == CHOOSE j \in 1..Len(fields) : fields[j].name = n IN fields[i].field

(* diff(old, new): three sets of column names. *)
FieldDiff(old, new) ==
    [added   |-> SchemaNames(new) \ SchemaNames(old),
     removed |-> SchemaNames(old) \ SchemaNames(new),
     changed |-> { n \in SchemaNames(old) \cap SchemaNames(new) :
                     ~FieldEq(SchemaField(old, n), SchemaField(new, n)) }]

FieldNoChanges == [added |-> {}, removed |-> {}, changed |-> {}]

FieldRegister(d) ==
    /\ module = "drifter.polars"
    /\ clock < MaxCalls
    /\ LET current == FromPolarsSchema(d)
           history == LoadHistory(file)
       IN IF current.tag = "raise"
          THEN /\ err' = "TypeError"
               /\ changes' = FieldNoChanges
               /\ UNCHANGED <<file, nonEmpty, sources>>
          ELSE LET c == IF history = <<>>
                        THEN [added |-> SchemaNames(current.fields),
                              removed |-> {}, changed |-> {}]
                        ELSE FieldDiff(history[Len(history)].schema.fields,
                                       current.fields)
                   any == c.added # {} \/ c.removed # {} \/ c.changed # {}
               IN /\ err' = "none"
                  /\ changes' = c
                  /\ file' = IF any
                             THEN SaveHistory(Append(history,
                                      [schema |-> [fields |-> current.fields],
                                       timestamp |-> clock]))
                             ELSE file
                  /\ nonEmpty' = IF any THEN nonEmpty + 1 ELSE nonEmpty
                  /\ sources' = IF any
                                THEN Append(IF history = <<>> THEN <<>> ELSE sources, d)
                                ELSE sources
    /\ df' = d
    /\ before' = file
    /\ clock' = clock + 1
    /\ op' = "register"
    /\ UNCHANGED <<disk, solo, sid, procs, arg, ret, module, layout, tampered, access>>

------------------------------------------------------------------------------
(* The environment.                                                        *)

(* Something other than register leaves text in the artifact that is not   *)
(* JSON; one such write per behaviour is followed.                         *)
Corrupt ==
    /\ ~tampered
    /\ clock < MaxCalls
    /\ file' = Garbage
    /\ tampered' = TRUE
    /\ op' = "corrupt"
    /\ UNCHANGED <<disk, solo, sid, procs,
                   arg, ret, module, layout, access, clock, df, before, changes, err, nonEmpty,
                   sources>>

(* The history a register call on the frame d hands to the write of the    *)
(* artifact; <<>> when the call does not come to write.                    *)
SaveArgument(d) ==
    IF module = "drifter"
    THEN IF /\ LoadError(file, access) = "none"
            /\ RegisterError(file, d) = "none"
            /\ file.kind # "value"
            /\ ChangeBool(RegisterChanges(LoadHistory(file), d))
         THEN AppendVersion(LoadHistory(file), NewVersion(d, clock))
         ELSE <<>>
    ELSE IF file.kind = "absent"
         THEN <<CreateSchema(d, layout)>>
         ELSE IF /\ file.kind = "history"
                 /\ HasChanges(SchemaDiff(file.versions[Len(file.versions)],
                                           CreateSchema(d, layout)))
              THEN AppendVersion(file.versions, CreateSchema(d, layout))
              ELSE <<>>

(* The process dies while register writes the artifact: write_text and     *)
(* open("w") empty the file and then write the new text over it, so any    *)
(* prefix of the new text may be what is left.  One crash per behaviour is *)
(* followed.                                                               *)
Crash(d) ==
    /\ ~tampered
    /\ clock < MaxCalls
    /\ module \in {"drifter", "drifter.schema"}
    /\ SaveArgument(d) # <<>>
    /\ \E text \in WrittenPrefixes(JsonDumps(SaveArgument(d))) :
           file' = ArtifactOfText(text)
    /\ tampered' = TRUE
    /\ changes' = (IF module = "drifter" THEN NoChanges ELSE SchemaNoChanges)
    /\ err' = "crash"
    /\ df' = d
    /\ before' = file
    /\ clock' = clock + 1
    /\ op' = "crash"
    /\ UNCHANGED <<disk, solo, sid, procs,
                   arg, ret, module, layout, access, nonEmpty, sources>>

(* The process loses the permission to write the artifact, or to read and *)
(* write it.                                                               *)
Revoke ==
    /\ ~tampered
    /\ clock < MaxCalls
    /\ access' \in {"ro", "none"}
    /\ tampered' = TRUE
    /\ op' = "revoke"
    /\ UNCHANGED <<disk, solo, sid, procs,
                   arg, ret, module, layout, file, clock, df, before, changes, err, nonEmpty,
                   sources>>

(* Something other than register leaves a parseable artifact that is not  *)
(* a history of versions.                                                  *)
WriteInvalid ==
    /\ ~tampered
    /\ clock < MaxCalls
    /\ file' \in InvalidArtifacts
    /\ tampered' = TRUE
    /\ op' = "invalid"
    /\ UNCHANGED <<disk, solo, sid, procs,
                   arg, ret, module, layout, access, clock, df, before, changes, err, nonEmpty,
                   sources>>

(* The process ends and another one starts; the classes of the new process *)
(* have other identity hashes.  One change of layout per behaviour is      *)
(* followed.  drifter.register keeps nothing of the process between calls. *)
Restart ==
    /\ module = "drifter.schema"
    /\ clock < MaxCalls
    /\ layout = LayoutA
    /\ layout' \in Layouts \ {layout}
    /\ op' = "restart"
    /\ UNCHANGED <<disk, solo, sid, procs,
                   arg, ret, module, file, clock, df, before, changes, err, tampered, access,
                   nonEmpty, sources>>

------------------------------------------------------------------------------
(* Several source ids in one store directory.                              *)

(* A source id is a string; it is kept as its parts between "/".  "./a" is *)
(* the id <<".", "a">>.                                                    *)
SourceIds == { <<"a">>, <<"b">>, <<".", "a">> }

(* Path(".drifter") / f"{source_id}.json" in drifter.register and          *)
(* schema_dir / f"{name}_schema_history.json" in drifter.schema.register:  *)
(* pathlib drops every "." part of what is joined to the directory.        *)
PathOf(m, s) ==
    [parts |-> <<".drifter">> \o SelectSeq(s, LAMBDA c : c # "."),
     suffix |-> IF m = "drifter" THEN ".json" ELSE "_schema_history.json"]

(* The paths the two registrars can name in the store directory. *)
Paths == { PathOf(m, s) : m \in {"drifter", "drifter.schema"}, s \in SourceIds }

(* A store directory with no artifact in it. *)
EmptyDisk == [p \in Paths |-> Absent]

(* No source id has been registered. *)
NoSolo == [s \in SourceIds |-> Absent]

(* The two callers of a race, both outside register. *)
Callers == {1, 2}
Idle == [pc |-> "idle", d |-> <<>>, found |-> Absent]
NoCallers == [p \in Callers |-> Idle]

(* register(d, s): the call reads and writes the artifact at the path of   *)
(* s and no other.  solo follows the same calls with every source id in a  *)
(* store of its own.                                                       *)
RegisterOn(s, d) ==
    /\ module \in {"drifter", "drifter.schema"}
    /\ clock < MaxCalls
    /\ LET p == PathOf(module, s)
           o == IF module = "drifter"
                THEN RegisterOutcome(disk[p], access, d, clock)
                ELSE SchemaOutcome(disk[p], access, d, layout)
           alone == IF module = "drifter"
                    THEN RegisterOutcome(solo[s], access, d, clock)
                    ELSE SchemaOutcome(solo[s], access, d, layout)
       IN /\ disk' = [disk EXCEPT ![p] = o.file]
          /\ solo' = [solo EXCEPT ![s] = alone.file]
          /\ changes' = o.changes
          /\ err' = o.err
          /\ ret' = alone
          /\ before' = disk[p]
          /\ file' = o.file
    /\ sid' = s
    /\ df' = d
    /\ clock' = clock + 1
    /\ op' = "register_on"
    /\ UNCHANGED <<module, layout, tampered, access, nonEmpty, sources, arg, procs>>

------------------------------------------------------------------------------
(* Two callers of register on one source id, with nothing that keeps them  *)
(* apart.  A call reads the artifact once, at its start, and writes it at  *)
(* most once, at its end; between the two the other caller may run.        *)

(* The artifact the end of a call works on, re-read at that moment. *)
ArtifactInHandReread(found, onDisk) == onDisk

(* The artifact the end of a call works on: what the call read at its      *)
(* start, whatever has been written since.                                 *)
ArtifactInHand(found, onDisk) == found

(* The start of a call: _load_history / schema_file.exists() and json.load *)
RaceLoad(p, d) ==
    /\ module \in {"drifter", "drifter.schema"}
    /\ clock < MaxCalls
    /\ procs[p].pc = "idle"
    /\ procs' = [procs EXCEPT ![p] = [pc |-> "loaded", d |-> d, found |-> file]]
    /\ op' = "load"
    /\ UNCHANGED <<module, layout, file, clock, df, before, changes, err, tampered,
                   access, nonEmpty, sources, arg, ret, disk, solo, sid>>

(* The end of a call: the diff, the append to the history read at the      *)
(* start, the write of the whole of it, and the return.                    *)
RaceSave(p) ==
    /\ procs[p].pc = "loaded"
    /\ LET found == ArtifactInHand(procs[p].found, file)
           o == IF module = "drifter"
                THEN RegisterOutcome(found, access, procs[p].d, clock)
                ELSE SchemaOutcome(found, access, procs[p].d, layout)
           truthy == IF module = "drifter" THEN ChangeBool(o.changes)
                                           ELSE HasChanges(o.changes)
       IN /\ file' = IF o.file # found THEN o.file ELSE file
          /\ changes' = o.changes
          /\ err' = o.err
          /\ nonEmpty' = IF truthy THEN nonEmpty + 1 ELSE nonEmpty
          /\ sources' = IF o.file # found THEN Append(sources, procs[p].d) ELSE sources
          /\ ret' = [by |-> p, found |-> procs[p].found]
    /\ df' = procs[p].d
    /\ before' = file
    /\ procs' = [procs EXCEPT ![p] = Idle]
    /\ clock' = clock + 1
    /\ op' = "register"
    /\ UNCHANGED <<module, layout, tampered, access, arg, disk, solo, sid>>

------------------------------------------------------------------------------
Init ==
    /\ module \in {"drifter", "drifter.schema"}
    /\ layout = LayoutA
    /\ file = Absent
    /\ clock = 0
    /\ df = <<>>
    /\ before = Absent
    /\ changes = (IF module = "drifter" THEN NoChanges ELSE SchemaNoChanges)
    /\ err = "none"
    /\ op = "init"
    /\ tampered = FALSE
    /\ access = "rw"
    /\ nonEmpty = 0
    /\ sources = <<>>
    /\ arg = <<>>
    /\ ret = <<>>
    /\ disk = EmptyDisk
    /\ solo = NoSolo
    /\ sid = <<>>
    /\ procs = NoCallers

Next ==
    \/ \E d \in Frames : Register(d)
    \/ \E d \in Frames : SchemaRegister(d)
    \/ Corrupt
    \/ Restart

Spec == Init /\ [][Next]_vars

(* The two registrars on a store that fails them: an artifact that parses  *)
(* and is not a history, permissions that are taken away, a process that   *)
(* ends during the write.  The frames are those with flat columns.         *)
StoreFrames ==
    { <<>>,
      <<Col("a", Int64)>>,
      <<Col("b", Int64)>>,
      <<Col("a", String)>>,
      <<Col("a", Int64), Col("b", String)>>,
      <<Col("b", String), Col("a", Int64)>> }

NextStore ==
    \/ \E d \in StoreFrames : Register(d)
    \/ \E d \in StoreFrames : SchemaRegister(d)
    \/ WriteInvalid
    \/ Revoke
    \/ \E d \in StoreFrames : Crash(d)

SpecStore == Init /\ [][NextStore]_vars

(* The two registrars called for several source ids in turn. *)
NextSources ==
    \/ \E s \in SourceIds, d \in StoreFrames : RegisterOn(s, d)

SpecSources == Init /\ [][NextSources]_vars

(* The frames of the callers of a race. *)
RaceFrames ==
    { <<>>,
      <<Col("a", Int64)>>,
      <<Col("b", Int64)>>,
      <<Col("a", String)>> }

(* The two registrars called by two callers at once. *)
NextRace ==
    \/ \E p \in Callers, d \in RaceFrames : RaceLoad(p, d)
    \/ \E p \in Callers : RaceSave(p)

SpecRace == Init /\ [][NextRace]_vars

(* The registrar over the adapter's Fields, on its own. *)
InitFields ==
    /\ module = "drifter.polars"
    /\ layout = LayoutA
    /\ file = Absent
    /\ clock = 0
    /\ df = <<>>
    /\ before = Absent
    /\ changes = FieldNoChanges
    /\ err = "none"
    /\ op = "init"
    /\ tampered = FALSE
    /\ access = "rw"
    /\ nonEmpty = 0
    /\ sources = <<>>
    /\ arg = <<>>
    /\ ret = <<>>
    /\ disk = EmptyDisk
    /\ solo = NoSolo
    /\ sid = <<>>
    /\ procs = NoCallers

NextFields ==
    \/ \E d \in Frames : FieldRegister(d)
    \/ Corrupt

SpecFields == InitFields /\ [][NextFields]_vars

------------------------------------------------------------------------------
(* Frames with columns of dtypes that no Field describes: Decimal and      *)
(* Object, alone, beside a column that a Field describes, and inside a     *)
(* List.                                                                   *)
TypeFrames ==
    { <<Col("a", Int64)>>, <<Col("a", String)>>,
      <<Col("a", Prim("Decimal"))>>, <<Col("a", Prim("Object"))>>,
      <<Col("a", Int64), Col("b", Prim("Decimal"))>>,
      <<Col("a", List(Prim("Decimal")))>> }

(* pl.Categorical(ordering): the dtype and the order of its categories. *)
Categorical(o) ==
    [k |-> "Categorical", inner |-> <<>>, size |-> 0, fields |-> <<>>, ordering |-> o]

(* The dtypes of time, of text and of nothing, and the two orderings of a  *)
(* Categorical.                                                            *)
DistinctionTypes ==
    { Prim("Date"), Prim("Time"), Prim("Datetime"), Prim("Duration"),
      Prim("Null"), String, Categorical("physical"), Categorical("lexical") }

(* Frames of two columns of those dtypes, for the adapter alone. *)
DistinctionFrames ==
    { <<Col("a", d1), Col("b", d2)>> : d1, d2 \in DistinctionTypes }

(* from_polars_schema(df), called on its own: nothing is read or written. *)
FromPolarsSchemaCall(d) ==
    /\ module = "drifter.polars"
    /\ clock < MaxCalls
    /\ df' = d
    /\ arg' = d
    /\ ret' = FromPolarsSchema(d)
    /\ err' = IF FromPolarsSchema(d).tag = "raise" THEN "TypeError" ELSE "none"
    /\ before' = file
    /\ clock' = clock + 1
    /\ op' = "from_polars_schema"
    /\ UNCHANGED <<disk, solo, sid, procs,
                   module, layout, file, changes, tampered, access, nonEmpty, sources>>

InitTypes ==
    /\ module \in {"drifter.schema", "drifter.polars"}
    /\ layout = LayoutA
    /\ file = Absent
    /\ clock = 0
    /\ df = <<>>
    /\ before = Absent
    /\ changes = IF module = "drifter.schema" THEN SchemaNoChanges ELSE FieldNoChanges
    /\ err = "none"
    /\ op = "init"
    /\ tampered = FALSE
    /\ access = "rw"
    /\ nonEmpty = 0
    /\ sources = <<>>
    /\ arg = <<>>
    /\ ret = <<>>
    /\ disk = EmptyDisk
    /\ solo = NoSolo
    /\ sid = <<>>
    /\ procs = NoCallers

NextTypes ==
    \/ \E d \in TypeFrames : SchemaRegister(d)
    \/ \E d \in TypeFrames \cup DistinctionFrames : FromPolarsSchemaCall(d)

SpecTypes == InitTypes /\ [][NextTypes]_vars

------------------------------------------------------------------------------
(* drifter.core on its own: Fields are built, serialized, read back and    *)
(* compared.  No call touches the artifact and none leaves anything for    *)
(* the next, so a behaviour is one call.                                   *)

(* The depth to which Fields and serialized values are nested. *)
MaxDepth == 2

(* Fields of every class that holds no Field. *)
CoreLeaves ==
    UNION { { BooleanField(n), StringField(n), BinaryField(n), DateField(n),
              DatetimeField(n), DurationField(n), TimeField(n), NullField(n),
              IntegerField(n, 8, TRUE), IntegerField(n, 64, FALSE),
              FloatField(n, 32), FloatField(n, 64),
              CategoricalField(n, TRUE), CategoricalField(n, FALSE),
              EnumField(n, <<>>), EnumField(n, <<"x", "y">>),
              EnumField(n, <<"y", "x">>) } : n \in BOOLEAN }

(* The Fields of the three nested classes over the Fields of S. *)
CoreNest(S) ==
    LET y == EnumField(FALSE, <<"x">>)
    IN UNION { { ListField(TRUE, x), ListField(FALSE, x),
                 ArrayField(TRUE, x, <<>>, <<>>),
                 ArrayField(TRUE, x, <<>>, <<2>>),
                 ArrayField(FALSE, x, << <<2, 3>> >>, <<>>),
                 StructField(TRUE, <<[name |-> "a", field |-> x]>>),
                 StructField(FALSE, <<[name |-> "a", field |-> x],
                                      [name |-> "b", field |-> y]>>),
                 StructField(FALSE, <<[name |-> "b", field |-> y],
                                      [name |-> "a", field |-> x]>>) } : x \in S }
       \cup { StructField(TRUE, <<>>) }

RECURSIVE CoreFieldsTo(_)
CoreFieldsTo(depth) ==
    IF depth <= 1 THEN CoreLeaves
    ELSE CoreFieldsTo(depth - 1) \cup CoreNest(CoreFieldsTo(depth - 1))

CoreFields == CoreFieldsTo(MaxDepth)

(* Schemas of up to two columns over these Fields. *)
CoreSchemas ==
    { Schema(<<>>) }
    \cup { Schema(<<[name |-> n, field |-> x]>>) : n \in {"a", "b"}, x \in CoreFields }
    \cup UNION { { Schema(<<[name |-> "a", field |-> x], [name |-> "b", field |-> y]>>),
                   Schema(<<[name |-> "b", field |-> y], [name |-> "a", field |-> x]>>) } :
                 x \in CoreFields, y \in {StringField(TRUE), ListField(TRUE, StringField(TRUE))} }

(* The Fields that are compared with each other. *)
EqLeaves ==
    { IntegerField(TRUE, 8, TRUE), IntegerField(FALSE, 8, TRUE),
      IntegerField(TRUE, 8, FALSE), IntegerField(TRUE, 16, TRUE),
      EnumField(TRUE, <<"x", "y">>), EnumField(TRUE, <<"y", "x">>),
      StringField(TRUE) }

EqNest(S) ==
    LET y == StringField(TRUE)
    IN UNION { { ListField(TRUE, x),
                 ArrayField(TRUE, x, <<>>, <<>>),
                 ArrayField(TRUE, x, <<>>, <<2>>),
                 ArrayField(TRUE, x, << <<2>> >>, <<>>),
                 StructField(TRUE, <<[name |-> "a", field |-> x]>>),
                 StructField(TRUE, <<[name |-> "a", field |-> x],
                                     [name |-> "b", field |-> y]>>),
                 StructField(TRUE, <<[name |-> "b", field |-> y],
                                     [name |-> "a", field |-> x]>>) } : x \in S }

RECURSIVE EqFieldsTo(_)
EqFieldsTo(depth) ==
    IF depth <= 1 THEN EqLeaves
    ELSE EqFieldsTo(depth - 1) \cup EqNest(EqFieldsTo(depth - 1))

EqFields == EqFieldsTo(MaxDepth)

(* d without the key k, and d with the value v at the key k *)
DictWithout(d, k) == PyDict(SelectSeq(d.dict, LAMBDA e : e.key # k))

DictWith(d, k, v) ==
    IF DictHas(d, k)
    THEN PyDict([i \in 1..Len(d.dict) |->
                    IF d.dict[i].key = k THEN Entry(k, v) ELSE d.dict[i]])
    ELSE PyDict(Append(d.dict, Entry(k, v)))

(* Serialized values with a tag that FIELD_CLASSES does not hold. *)
UnknownTagged ==
    { PyDict(<<Entry("nullable", PyBool(TRUE)), Entry("type", t)>>) :
        t \in {PyStr("Sequence"), PyStr("Field"), PyStr("Decimal"), PyInt(5)} }

(* Serialized values with a tag FIELD_CLASSES holds, and a parameter       *)
(* missing, out of its range, or not of its kind.                          *)
MalformedTagged ==
    LET good == { AsDict(f) : f \in { IntegerField(TRUE, 8, TRUE), FloatField(TRUE, 32),
                                      StringField(TRUE), EnumField(TRUE, <<"x">>),
                                      CategoricalField(TRUE, TRUE),
                                      ListField(TRUE, StringField(TRUE)),
                                      ArrayField(TRUE, StringField(TRUE), <<>>, <<2>>),
                                      StructField(TRUE, <<[name |-> "a",
                                                           field |-> StringField(TRUE)]>>) } }
    IN UNION { { DictWithout(d, k) : k \in DictKeys(d) \ {"type", "ordered", "shape", "width"} } :
               d \in good }
       \cup { DictWith(AsDict(IntegerField(TRUE, 8, TRUE)), "bits", PyInt(b)) : b \in {7, 128} }
       \cup { DictWith(AsDict(FloatField(TRUE, 32)), "bits", PyInt(16)) }
       \cup { DictWith(AsDict(ListField(TRUE, StringField(TRUE))), "inner", v) :
                v \in {PyInt(1), PyStr("String"), PyNone} }
       \cup { DictWith(AsDict(ArrayField(TRUE, StringField(TRUE), <<>>, <<>>)), "inner", PyInt(1)) }
       \cup { DictWith(AsDict(StructField(TRUE, <<>>)), "fields", v) :
                v \in {PyList(<<>>), PyInt(1)} }
       \cup { DictWith(AsDict(StringField(TRUE)), "bits", PyInt(8)) }

(* The serialized values of S inside a List, an Array and a Struct. *)
WrapTagged(S) ==
    LET good == AsDict(StringField(TRUE))
    IN UNION { { DictWith(AsDict(ListField(TRUE, StringField(TRUE))), "inner", d),
                 DictWith(AsDict(ArrayField(TRUE, StringField(TRUE), <<>>, <<>>)), "inner", d),
                 DictWith(AsDict(StructField(TRUE, <<>>)), "fields",
                          PyDict(<<Entry("a", d)>>)),
                 DictWith(AsDict(StructField(TRUE, <<>>)), "fields",
                          PyDict(<<Entry("a", good), Entry("b", d)>>)),
                 DictWith(AsDict(StructField(TRUE, <<>>)), "fields",
                          PyDict(<<Entry("b", d), Entry("a", good)>>)) } : d \in S }

RECURSIVE TaggedTo(_, _)
TaggedTo(S, depth) ==
    IF depth <= 1 THEN S
    ELSE TaggedTo(S, depth - 1) \cup WrapTagged(TaggedTo(S, depth - 1))

(* The serialized values field_from_dict is given that no Field gave. *)
OtherDicts == TaggedTo(UnknownTagged \cup MalformedTagged, MaxDepth)

(* field_from_dict(asdict(f)) *)
RoundTrip(f) ==
    /\ module = "drifter.core"
    /\ op = "init"
    /\ df' = f
    /\ arg' = AsDict(f)
    /\ ret' = FieldFromDict(AsDict(f))
    /\ op' = "round_trip"
    /\ UNCHANGED <<disk, solo, sid, procs,
                   module, layout, file, clock, before, changes, err, tampered,
                   access, nonEmpty, sources>>

(* field_from_dict(data) *)
FieldFromDictCall(data) ==
    /\ module = "drifter.core"
    /\ op = "init"
    /\ df' = <<>>
    /\ arg' = data
    /\ ret' = FieldFromDict(data)
    /\ op' = "field_from_dict"
    /\ UNCHANGED <<disk, solo, sid, procs,
                   module, layout, file, clock, before, changes, err, tampered,
                   access, nonEmpty, sources>>

(* Schema.from_dict(s.to_dict()) *)
SchemaRoundTrip(s) ==
    /\ module = "drifter.core"
    /\ op = "init"
    /\ df' = s
    /\ arg' = SchemaToDict(s)
    /\ ret' = SchemaFromDict(SchemaToDict(s))
    /\ op' = "schema_round_trip"
    /\ UNCHANGED <<disk, solo, sid, procs,
                   module, layout, file, clock, before, changes, err, tampered,
                   access, nonEmpty, sources>>

(* f == g *)
Compare(f, g) ==
    /\ module = "drifter.core"
    /\ op = "init"
    /\ df' = <<>>
    /\ arg' = <<f, g>>
    /\ ret' = FieldEq(f, g)
    /\ op' = "eq"
    /\ UNCHANGED <<disk, solo, sid, procs,
                   module, layout, file, clock, before, changes, err, tampered,
                   access, nonEmpty, sources>>

InitCodec ==
    /\ module = "drifter.core"
    /\ layout = LayoutA
    /\ file = Absent
    /\ clock = 0
    /\ df = <<>>
    /\ before = Absent
    /\ changes = NoChanges
    /\ err = "none"
    /\ op = "init"
    /\ tampered = FALSE
    /\ access = "rw"
    /\ nonEmpty = 0
    /\ sources = <<>>
    /\ arg = <<>>
    /\ ret = <<>>
    /\ disk = EmptyDisk
    /\ solo = NoSolo
    /\ sid = <<>>
    /\ procs = NoCallers

NextCodec ==
    \/ op = "init" /\ \E f \in CoreFields : RoundTrip(f)
    \/ op = "init" /\ \E data \in OtherDicts : FieldFromDictCall(data)
    \/ op = "init" /\ \E s \in CoreSchemas : SchemaRoundTrip(s)
    \/ op = "init" /\ \E f \in EqFields, g \in EqFields : Compare(f, g)

SpecCodec == InitCodec /\ [][NextCodec]_vars

------------------------------------------------------------------------------
(* What the properties read off a state.                                   *)

(* The dtype a stored Field dict of drifter.schema describes. *)
RECURSIVE FieldToDType(_)
FieldToDType(f) ==
    CASE f.dtype = "list" -> List(FieldToDType(f.inner[1]))
      [] f.dtype = "array" -> Array(FieldToDType(f.inner[1]), f.size)
      [] f.dtype = "struct" ->
           Struct([i \in 1..Len(f.fields) |->
                      Col(f.fields[i].name, FieldToDType(f.fields[i]))])
      [] f.dtype = "int" -> Int64
      [] OTHER -> String

(* The schema, in column order, that a persisted version of drifter or of  *)
(* drifter.schema holds; no columns when the entry holds no schema.        *)
StoredFrame(v) ==
    IF module = "drifter"
    THEN IF "dataframe" \in DOMAIN v /\ v.dataframe[2][1] = "polars"
         THEN DeserializeDF(B64Decode(v.dataframe))
         ELSE <<>>
    ELSE IF "fields" \in DOMAIN v
         THEN [i \in 1..Len(v.fields) |-> Col(v.fields[i].name, FieldToDType(v.fields[i]))]
         ELSE <<>>

(* The column names a persisted version holds. *)
StoredNames(v) ==
    IF module = "drifter.polars"
    THEN SchemaNames(v.schema.fields)
    ELSE Names(StoredFrame(v))

(* The Polars schema behind the latest persisted version of a non-empty    *)
(* history: read back from the version where the version holds it, and the *)
(* frame of the call that appended it where it holds the adapter's Fields. *)
LatestFrame(f) ==
    IF module = "drifter.polars"
    THEN sources[Len(Versions(f))]
    ELSE StoredFrame(Versions(f)[Len(Versions(f))])

(* The column names in the three parts of the returned SchemaChange. *)
AddedNames ==
    CASE module = "drifter" -> { changes.added[i].name : i \in 1..Len(changes.added) }
      [] module = "drifter.schema" -> DOMAIN changes.added
      [] OTHER -> changes.added
RemovedNames ==
    CASE module = "drifter" -> { changes.removed[i].name : i \in 1..Len(changes.removed) }
      [] module = "drifter.schema" -> DOMAIN changes.removed
      [] OTHER -> changes.removed
ChangedNames ==
    CASE module = "drifter" -> { c.name : c \in changes.changed }
      [] module = "drifter.schema" -> DOMAIN changes.changed
      [] OTHER -> changes.changed

(* The last step was a register call that returned. *)
Returned == op = "register" /\ err = "none"

(* The returned SchemaChange is empty. *)
EmptyResult == AddedNames = {} /\ RemovedNames = {} /\ ChangedNames = {}

(* s is a prefix of t. *)
IsPrefix(s, t) == Len(s) <= Len(t) /\ \A i \in 1..Len(s) : s[i] = t[i]

(* Two schemas map the same names to the same dtypes, in whatever order. *)
SameMapping(s, t) ==
    /\ Names(s) = Names(t)
    /\ \A n \in Names(s) : DTypeOf(s, n) = DTypeOf(t, n)

------------------------------------------------------------------------------
(* C1: first-registration law.  A register call that finds no artifact, on *)
(* a store the process may read and write, and is given at least one       *)
(* column returns every column name as added and                           *)
(* nothing as removed or changed, and leaves a history of exactly one      *)
(* version whose schema has exactly those column names.                    *)
C1_FirstRegistration ==
    (op = "register" /\ before.kind = "absent" /\ Len(df) >= 1 /\ access = "rw") =>
        /\ err = "none"
        /\ AddedNames = Names(df)
        /\ RemovedNames = {}
        /\ ChangedNames = {}
        /\ file.kind = "history"
        /\ Len(file.versions) = 1
        /\ StoredNames(file.versions[1]) = Names(df)

C1_Witness ==
    /\ op = "register" /\ before.kind = "absent" /\ Len(df) = 2
    /\ AddedNames = {"a", "b"}
    /\ Len(Versions(file)) = 1

(* C2: no-op law of drifter.register.  On a store the process may read and *)
(* write, a call that directly follows a call with the same frame,         *)
(* whatever the artifact was before the first of the two, returns an empty *)
(* SchemaChange and leaves the artifact as it is: the same versions with   *)
(* the same timestamps.                                                    *)
C2_NoOp ==
    [][ (module = "drifter" /\ op = "register" /\ op' = "register"
            /\ access = "rw" /\ clock' = clock + 1 /\ df' = df)
        => (err' = "none" /\ ~ChangeBool(changes') /\ file' = file) ]_vars

(* The same statement for a second call that follows a call that returned. *)
C2_NoOpAfterReturn ==
    [][ (module = "drifter" /\ op = "register" /\ err = "none" /\ op' = "register"
            /\ access = "rw" /\ clock' = clock + 1 /\ df' = df)
        => (err' = "none" /\ ~ChangeBool(changes') /\ file' = file) ]_vars

C2_Witness ==
    /\ module = "drifter" /\ op = "register" /\ ~tampered
    /\ clock = 2 /\ nonEmpty = 1
    /\ Len(Versions(file)) = 1
    /\ StoredFrame(file.versions[1]) = df
    /\ file.versions[1].timestamp = 0
    /\ EmptyResult /\ before = file

(* C3: version counting of drifter.register.  From an absent artifact that *)
(* only register writes, the number of persisted versions equals the       *)
(* number of calls so far that returned a non-empty SchemaChange.          *)
C3_VersionCount ==
    (module = "drifter" /\ ~tampered) => Len(Versions(file)) = nonEmpty

C3_Witness ==
    /\ module = "drifter" /\ ~tampered
    /\ clock = 3 /\ nonEmpty = 2 /\ Len(Versions(file)) = 2

(* C4: append-only history.  A register call on an artifact that is absent *)
(* or parseable leaves the history it found as a prefix of the history it  *)
(* leaves: no version is edited, reordered or deleted.                     *)
C4_AppendOnly ==
    [][ (op' = "register" /\ clock' = clock + 1 /\ file.kind # "garbage")
        => IsPrefix(Versions(file), Versions(file')) ]_vars

C4_Witness ==
    /\ op = "register" /\ before.kind = "history"
    /\ Len(Versions(file)) = Len(Versions(before)) + 1
    /\ IsPrefix(Versions(before), Versions(file))
    /\ Len(Versions(before)) = 2

C6_Disjoint ==
    Returned =>
        /\ AddedNames \cap RemovedNames = {}
        /\ AddedNames \cap ChangedNames = {}
        /\ RemovedNames \cap ChangedNames = {}

C6_Witness ==
    /\ Returned /\ module = "drifter.schema"
    /\ AddedNames = {"b"} /\ ChangedNames = {"a"} /\ RemovedNames = {}

ListInnerChanged(old, new, n) ==
    /\ n \in Names(old) \cap Names(new)
    /\ DTypeOf(old, n).k = "List"
    /\ DTypeOf(new, n).k = "List"
    /\ DTypeOf(old, n).inner # DTypeOf(new, n).inner

(* C8: nested-change surfacing.  When a list column keeps its name and     *)
(* only its element dtype differs from the latest persisted schema,        *)
(* register, on a store the process may read and write, returns that       *)
(* column in changed, not in added or removed, and persists a new version. *)
C8_NestedChangeSurfaces ==
    (op = "register" /\ Versions(before) # <<>> /\ access = "rw") =>
        \A n \in Names(df) :
            ListInnerChanged(LatestFrame(before), df, n) =>
                /\ err = "none"
                /\ n \in ChangedNames
                /\ n \notin AddedNames \cup RemovedNames
                /\ Len(Versions(file)) = Len(Versions(before)) + 1

(* The same statement for calls made by the process that wrote the latest  *)
(* version, and for drifter.register.                                      *)
C8_SameProcess ==
    (module = "drifter" \/ layout = LayoutA) => C8_NestedChangeSurfaces

(* A column whose dtype differs between the two schemas only in the size  *)
(* of an array, or only in the dtype or the name of one member of a        *)
(* struct.                                                                 *)
NestedDetailChanged(old, new, n) ==
    /\ n \in Names(old) \cap Names(new)
    /\ LET o == DTypeOf(old, n)
           c == DTypeOf(new, n)
       IN \/ /\ o.k = "Array" /\ c.k = "Array"
             /\ o.inner = c.inner /\ o.size # c.size
          \/ /\ o.k = "Struct" /\ c.k = "Struct"
             /\ Len(o.fields) = Len(c.fields)
             /\ \E i \in 1..Len(o.fields) :
                   /\ \A j \in 1..Len(o.fields) : j # i => o.fields[j] = c.fields[j]
                   /\ \/ /\ o.fields[i].name = c.fields[i].name
                         /\ o.fields[i].dtype # c.fields[i].dtype
                      \/ /\ o.fields[i].name # c.fields[i].name
                         /\ o.fields[i].dtype = c.fields[i].dtype

C9_StructMemberSurfaces ==
    (op = "register" /\ Versions(before) # <<>>) =>
        \A n \in Names(df) :
            ( /\ Names(LatestFrame(before)) = Names(df)
              /\ NestedDetailChanged(LatestFrame(before), df, n)
              /\ DTypeOf(df, n).k = "Struct"
              /\ \A m \in Names(df) \ {n} :
                    DTypeOf(LatestFrame(before), m) = DTypeOf(df, m) )
            => ( /\ err = "none"
                 /\ ChangedNames = {n}
                 /\ AddedNames = {}
                 /\ RemovedNames = {} )

(* C10: corrupted-store recovery.  A register call with at least one       *)
(* column that finds text it cannot parse in the artifact raises nothing,  *)
(* returns every column name as added and nothing as removed or changed,   *)
(* and leaves a history of exactly one version in place of the text.       *)
C10_CorruptedRecovery ==
    (op = "register" /\ before.kind = "garbage" /\ Len(df) >= 1) =>
        /\ err = "none"
        /\ AddedNames = Names(df)
        /\ RemovedNames = {}
        /\ ChangedNames = {}
        /\ file.kind = "history"
        /\ Len(file.versions) = 1
        /\ StoredNames(file.versions[1]) = Names(df)

(* The same statement for drifter.register alone. *)
C10_DrifterRecovers == (module = "drifter") => C10_CorruptedRecovery

(* C11: zero-column first registration.  A register call that finds no     *)
(* artifact, on a store the process may read and write, and is given a     *)
(* frame without columns returns an empty SchemaChange and persists        *)
(* nothing: no artifact exists afterwards.                                 *)
C11_ZeroColumnFirst ==
    (op = "register" /\ before.kind = "absent" /\ df = <<>> /\ access = "rw") =>
        /\ err = "none"
        /\ EmptyResult
        /\ file = Absent

(* The same statement for drifter.register alone. *)
C11_DrifterPersistsNothing == (module = "drifter") => C11_ZeroColumnFirst

(* C12: structurally invalid history degrades.  A call of drifter.register *)
(* that finds a parseable artifact that is not a history of versions (a    *)
(* JSON value that is not a list, a list of entries that are not version   *)
(* records, a version whose stored schema does not decode) raises nothing  *)
(* and proceeds as a first registration: every column is added.            *)
C12_InvalidHistoryDegrades ==
    (module = "drifter" /\ op = "register" /\ before \in InvalidArtifacts) =>
        /\ err = "none"
        /\ AddedNames = Names(df)
        /\ RemovedNames = {}
        /\ ChangedNames = {}

(* The store holds no version, or a latest version that differs from the   *)
(* frame of the call: a register call on it has a version to save.         *)
SaveDue ==
    IF Versions(before) = <<>> THEN df # <<>>
    ELSE ~SameMapping(LatestFrame(before), df)

(* C13: storage errors are fatal.  A call of drifter.register that may not *)
(* read the artifact it finds, or may not write the version it has to      *)
(* save, raises the error of the store to the caller: it returns no        *)
(* SchemaChange and leaves the artifact as it found it.                    *)
C13_StorageErrorsFatal ==
    (module = "drifter" /\ op = "register") =>
        /\ (access = "none" /\ before.kind # "absent")
               => (err = "PermissionError" /\ file = before)
        /\ (access # "rw" /\ SaveDue)
               => (err = "PermissionError" /\ file = before)

C13_Witness ==
    /\ module = "drifter" /\ op = "register" /\ access = "ro"
    /\ Len(Versions(before)) = 1 /\ SaveDue
    /\ err = "PermissionError" /\ file = before
    /\ changes = NoChanges

(* A call that may not read the artifact it finds. *)
C13_WitnessLoad ==
    /\ module = "drifter" /\ op = "register" /\ access = "none"
    /\ Len(Versions(before)) = 2
    /\ err = "PermissionError" /\ file = before

(* The complete history a crashed call was writing. *)
CrashedWrite ==
    IF module = "drifter"
    THEN AppendVersion(LoadHistory(file), NewVersion(df', clock))
    ELSE AppendVersion(Versions(file), CreateSchema(df', layout))

(* C14: crash-safe save.  After a crash at any point of the write of the   *)
(* artifact, a later load returns the complete old history, the complete   *)
(* new history, or an empty history through the corruption path; it never  *)
(* returns a parseable history that is neither the old nor the new one.    *)
C14_CrashSafe ==
    [][ op' = "crash" =>
          IF module = "drifter"
          THEN LoadHistory(file') \in {LoadHistory(file), CrashedWrite, <<>>}
          ELSE /\ SchemaLoadError(file') = "none"
               /\ Versions(file') \in {Versions(file), CrashedWrite, <<>>} ]_vars

(* What is left after a crash never parses as a history that is neither    *)
(* the old nor the new one, for both registrars.                           *)
C14_NeverValidButWrong ==
    [][ (op' = "crash" /\ file'.kind = "history")
          => Versions(file') \in {Versions(file), CrashedWrite} ]_vars

(* The same statement as C14 for drifter.register alone. *)
C14_DrifterCrashSafe ==
    [][ (op' = "crash" /\ module = "drifter")
          => LoadHistory(file') \in {LoadHistory(file), CrashedWrite, <<>>} ]_vars

(* A crash that left an unparseable part of a history of two versions. *)
C14_WitnessCut ==
    /\ op = "crash" /\ file = Garbage /\ Len(Versions(before)) = 1

------------------------------------------------------------------------------
(* C15: round trip.  For every Field f of every class, whatever it nests   *)
(* and whatever its nullability, field_from_dict(asdict(f)) returns a      *)
(* Field equal to f; and for every Schema s, Schema.from_dict(s.to_dict()) *)
(* returns a Schema equal to s.                                            *)
C15_RoundTrip ==
    /\ op = "round_trip" => ret.tag = "field" /\ FieldEq(ret.field, df)
    /\ op = "schema_round_trip" => ret.tag = "schema" /\ SchemaEq(ret.schema, df)

(* An Array with a width over an Enum has made the round trip, and so has  *)
(* a Schema of two columns.                                                *)
C15_Witness ==
    /\ op = "round_trip"
    /\ df.type = "Array"
    /\ df.width # <<>>
    /\ df.inner.type = "Enum"
    /\ ret.tag = "field"

C15_WitnessSchema ==
    /\ op = "schema_round_trip"
    /\ Len(df.fields) = 2
    /\ ret.tag = "schema"

------------------------------------------------------------------------------
(* The tags of the Field variants. *)
VariantTags ==
    {"Array", "Binary", "Boolean", "Categorical", "Date", "Datetime", "Duration",
     "Enum", "Float", "Integer", "List", "Null", "String", "Struct", "Time"}

(* A serialized value that is well formed: a dict with the tag of a        *)
(* variant, a bool for nullable, the parameters of the class and no other    *)
(* key, each of the kind and in the range the class declares.              *)
RECURSIVE WellFormed(_)
WellFormed(d) ==
    /\ IsDict(d)
    /\ DictHas(d, "type") /\ DictHas(d, "nullable")
    /\ "bool" \in DOMAIN DictItem(d, "nullable")
    /\ LET t == DictItem(d, "type")
           keys == DictKeys(d) \ {"type", "nullable"}
       IN CASE t \in {PyStr("List"), PyStr("Array")} ->
                 /\ DictHas(d, "inner")
                 /\ WellFormed(DictItem(d, "inner"))
            [] t = PyStr("Struct") ->
                 /\ DictHas(d, "fields")
                 /\ IsDict(DictItem(d, "fields"))
                 /\ \A i \in 1..Len(DictItem(d, "fields").dict) :
                       WellFormed(DictItem(d, "fields").dict[i].val)
            [] t = PyStr("Integer") ->
                 /\ keys = {"bits", "signed"}
                 /\ DictItem(d, "bits") \in {PyInt(8), PyInt(16), PyInt(32), PyInt(64)}
            [] t = PyStr("Float") ->
                 /\ keys = {"bits"}
                 /\ DictItem(d, "bits") \in {PyInt(32), PyInt(64)}
            [] t = PyStr("Enum") ->
                 /\ keys = {"variants"}
                 /\ "list" \in DOMAIN DictItem(d, "variants")
            [] t = PyStr("Categorical") -> keys \subseteq {"ordered"}
            [] t \in { PyStr(c) : c \in VariantTags } -> keys = {}
            [] OTHER -> FALSE

(* The tag of d is the tag of no variant. *)
UnknownTag(d) ==
    /\ IsDict(d)
    /\ DictHas(d, "type")
    /\ DictItem(d, "type") \notin { PyStr(c) : c \in VariantTags }

(* d is well formed but for a tag no class has, its own or that of a value *)
(* nested in it.                                                           *)
RECURSIVE UnknownInside(_)
UnknownInside(d) ==
    /\ IsDict(d)
    /\ DictHas(d, "type")
    /\ \/ UnknownTag(d)
       \/ /\ DictItem(d, "type") \in {PyStr("List"), PyStr("Array")}
          /\ DictHas(d, "nullable") /\ DictHas(d, "inner")
          /\ UnknownInside(DictItem(d, "inner"))
       \/ /\ DictItem(d, "type") = PyStr("Struct")
          /\ DictHas(d, "nullable") /\ DictHas(d, "fields")
          /\ IsDict(DictItem(d, "fields"))
          /\ LET items == DictItem(d, "fields").dict
             IN /\ \E i \in 1..Len(items) : UnknownInside(items[i].val)
                /\ \A i \in 1..Len(items) :
                      UnknownInside(items[i].val) \/ WellFormed(items[i].val)

(* C16: unknown tag.  field_from_dict of a value whose tag, or the tag of  *)
(* a value nested in its List, Array or Struct, is one no class has,       *)
(* raises the error of an unknown field type, ValueError("Unknown field    *)
(* type: ..."), and returns no Field.                                      *)
C16_UnknownTag ==
    (op = "field_from_dict" /\ UnknownInside(arg)) => ret = Raise("ValueError")

(* The unknown tag has been met inside a Struct whose first member is well *)
(* formed.                                                                 *)
C16_Witness ==
    /\ op = "field_from_dict"
    /\ UnknownInside(arg)
    /\ ~UnknownTag(arg)
    /\ DictItem(arg, "type") = PyStr("Struct")
    /\ Len(DictItem(arg, "fields").dict) = 2
    /\ WellFormed(DictItem(arg, "fields").dict[1].val)
    /\ ret.tag = "raise"

C16_WitnessTop ==
    /\ op = "field_from_dict"
    /\ UnknownTag(arg)
    /\ ret.tag = "raise"

------------------------------------------------------------------------------
(* Some value in d, d itself or one nested in it, has the tag of no variant. *)
RECURSIVE HasUnknown(_)
HasUnknown(d) ==
    /\ IsDict(d)
    /\ \/ UnknownTag(d)
       \/ DictHas(d, "inner") /\ HasUnknown(DictItem(d, "inner"))
       \/ /\ DictHas(d, "fields")
          /\ IsDict(DictItem(d, "fields"))
          /\ \E i \in 1..Len(DictItem(d, "fields").dict) :
                HasUnknown(DictItem(d, "fields").dict[i].val)

(* d has the tag of a variant, no tag in it is unknown, and a parameter of *)
(* d or of a value nested in it is absent, out of its range or not of its  *)
(* kind.                                                                   *)
Malformed(d) ==
    /\ IsDict(d)
    /\ DictHas(d, "type")
    /\ ~UnknownTag(d)
    /\ ~HasUnknown(d)
    /\ ~WellFormed(d)

(* C17: malformed field.  field_from_dict of a value with a known tag and  *)
(* a required parameter absent (Integer without bits, List without inner,  *)
(* any variant without nullable) or of the wrong shape (Integer bits       *)
(* outside 8, 16, 32, 64, Float bits outside 32, 64, an inner that is not  *)
(* a mapping) raises an error and returns no Field.                        *)
C17_MalformedRejected ==
    (op = "field_from_dict" /\ Malformed(arg)) => ret.tag = "raise"

(* The parameters a variant requires. *)
RequiredOf(tag) ==
    {"nullable"} \cup
        CASE tag \in {"List", "Array"} -> {"inner"}
          [] tag = "Struct" -> {"fields"}
          [] tag = "Integer" -> {"bits", "signed"}
          [] tag = "Float" -> {"bits"}
          [] tag = "Enum" -> {"variants"}
          [] OTHER -> {}

(* The part that holds: a value with a known tag and a required parameter  *)
(* absent raises KeyError or TypeError, and returns no Field.              *)
C17_AbsentParameterRaises ==
    (/\ op = "field_from_dict"
     /\ IsDict(arg)
     /\ DictHas(arg, "type")
     /\ ~UnknownTag(arg)
     /\ ~(RequiredOf(DictItem(arg, "type").str) \subseteq DictKeys(arg)))
    => ret \in {Raise("KeyError"), Raise("TypeError")}

------------------------------------------------------------------------------
(* Structural equality as the design words it: the same tag, the same      *)
(* nullability and equal parameters, recursively.                          *)
RECURSIVE StructurallyEqual(_, _)
StructurallyEqual(f, g) ==
    /\ f.type = g.type
    /\ f.nullable = g.nullable
    /\ CASE f.type = "Enum" ->
              /\ Len(f.variants) = Len(g.variants)
              /\ \A i \in 1..Len(f.variants) : f.variants[i] = g.variants[i]
         [] f.type = "Struct" ->
              /\ SchemaNames(f.fields) = SchemaNames(g.fields)
              /\ \A n \in SchemaNames(f.fields) :
                    StructurallyEqual(SchemaField(f.fields, n), SchemaField(g.fields, n))
         [] f.type = "List" -> StructurallyEqual(f.inner, g.inner)
         [] f.type = "Array" ->
              /\ f.shape = g.shape
              /\ f.width = g.width
              /\ StructurallyEqual(f.inner, g.inner)
         [] f.type = "Integer" -> f.bits = g.bits /\ f.signed = g.signed
         [] f.type = "Float" -> f.bits = g.bits
         [] f.type = "Categorical" -> f.ordered = g.ordered
         [] OTHER -> TRUE

(* C18: structural equality.  f == g is true exactly when f and g have the *)
(* same tag, the same nullability and equal parameters, recursively: the   *)
(* labels of an Enum equal in order, the members of a Struct the same      *)
(* names with equal Fields whatever the insertion order, the size and the  *)
(* inner Field of an Array equal.                                          *)
C18_StructuralEquality ==
    op = "eq" => (ret <=> StructurallyEqual(arg[1], arg[2]))

(* Two Structs with the same members inserted in different orders have     *)
(* compared equal.                                                         *)
C18_Witness ==
    /\ op = "eq"
    /\ arg[1].type = "Struct" /\ arg[2].type = "Struct"
    /\ Len(arg[1].fields) = 2
    /\ arg[1].fields[1].name # arg[2].fields[1].name
    /\ ret = TRUE

(* Two Enums with the same labels in different orders have compared        *)
(* unequal.                                                                *)
C18_WitnessEnum ==
    /\ op = "eq"
    /\ arg[1].type = "Enum" /\ arg[2].type = "Enum"
    /\ arg[1].nullable = arg[2].nullable
    /\ arg[1].variants # arg[2].variants
    /\ ret = FALSE

------------------------------------------------------------------------------
(* A dtype that no Field variant describes, or that nests one. *)
RECURSIVE Unsupported(_)
Unsupported(d) ==
    \/ d.k \in {"Decimal", "Object", "Unknown"}
    \/ d.inner # <<>> /\ Unsupported(d.inner[1])
    \/ \E i \in 1..Len(d.fields) : Unsupported(d.fields[i].dtype)

UnsupportedFrame(d) == \E i \in 1..Len(d) : Unsupported(d[i].dtype)

(* C19: unsupported source type.  A frame with a column of a dtype that no *)
(* Field describes is not mapped to some other Field: register raises, and *)
(* the artifact is exactly as it was before the call.                      *)
C19_UnsupportedRejected ==
    (op = "register" /\ UnsupportedFrame(df)) => (err # "none" /\ file = before)

(* The part that holds: from_polars_schema raises TypeError for such a     *)
(* frame, and touches nothing.                                             *)
C19_AdapterRaises ==
    (op = "from_polars_schema" /\ UnsupportedFrame(df))
    => (ret = RaiseTypeError /\ err = "TypeError" /\ file = before)

C19_AdapterWitness ==
    /\ op = "from_polars_schema"
    /\ UnsupportedFrame(df)
    /\ Len(df) = 2

------------------------------------------------------------------------------
(* An entry of the persisted history has the form the format names: a      *)
(* schema with a fields mapping from column names to serialized Fields,    *)
(* each with its tag and its nullability, and a timestamp.                 *)
VersionFormat(v) ==
    /\ DOMAIN v = {"schema", "timestamp"}
    /\ "fields" \in DOMAIN v.schema
    /\ \A j \in 1..Len(v.schema.fields) :
          {"type", "nullable"} \subseteq DOMAIN v.schema.fields[j].field

(* The timestamps of the persisted versions are those of the calls that    *)
(* appended them: each earlier than the next, the last that of the call    *)
(* that has just written.                                                  *)
TimestampsOfCalls ==
    LET h == Versions(file)
    IN /\ \A i \in 1..Len(h) : "timestamp" \in DOMAIN h[i] /\ h[i].timestamp < clock
       /\ \A i \in 1..Len(h), j \in 1..Len(h) : i < j => h[i].timestamp < h[j].timestamp
       /\ (Returned /\ file # before) => h[Len(h)].timestamp = clock - 1

(* The names of the last version are the column names of the last call     *)
(* that detected a change.                                                 *)
LastNamesOfLastChange ==
    Versions(file) # <<>> =>
        /\ Len(sources) = Len(Versions(file))
        /\ StoredNames(Versions(file)[Len(Versions(file))]) = Names(sources[Len(sources)])

(* C21: artifact format.  After any sequence of register calls on a store  *)
(* that only register writes, every entry of the persisted history is a    *)
(* record with a schema holding a fields mapping from column name to       *)
(* serialized Field and a timestamp holding the time of the call that      *)
(* appended it, the most recent entry last; the names of the last entry    *)
(* are the column names of the last registration that detected a change.   *)
C21_ArtifactFormat ==
    ~tampered =>
        /\ \A i \in 1..Len(Versions(file)) : VersionFormat(Versions(file)[i])
        /\ TimestampsOfCalls
        /\ LastNamesOfLastChange

(* The part that holds for drifter.register: every entry is a record of a  *)
(* serialized DataFrame and a timestamp, the timestamps are those of the   *)
(* appending calls in order, and the column names of the last entry are    *)
(* those of the last registration that detected a change.                  *)
C21_DrifterEntries ==
    (module = "drifter" /\ ~tampered) =>
        /\ \A i \in 1..Len(Versions(file)) :
              DOMAIN Versions(file)[i] = {"dataframe", "timestamp"}
        /\ TimestampsOfCalls
        /\ LastNamesOfLastChange

(* The entries of drifter.schema.register are schemas without a timestamp. *)
C21_SchemaEntries ==
    (module = "drifter.schema" /\ ~tampered) =>
        \A i \in 1..Len(Versions(file)) :
            DOMAIN Versions(file)[i] = {"version", "fields"}

------------------------------------------------------------------------------
(* C22: source independence.                                               *)

(* The source ids registered so far are those whose own store holds an     *)
(* artifact or that the last call names.                                   *)
C22_Used(s) == solo[s] # Absent \/ sid = s

(* C22: for distinct source ids, the calls on one id leave the artifact of *)
(* every other id alone, and calls on several ids in any interleaving      *)
(* return what the calls of each id alone return and leave the artifacts   *)
(* those calls alone leave.                                                *)
C22_SourceIndependence ==
    op = "register_on"
        => /\ changes = ret.changes
           /\ err = ret.err
           /\ \A s \in SourceIds :
                  C22_Used(s) => disk[PathOf(module, s)] = solo[s]

(* The two ids "a" and "./a" have both been registered and the artifact    *)
(* at their one path is not what the calls on "a" alone leave.             *)
C22_Aliased ==
    /\ op = "register_on"
    /\ C22_Used(<<"a">>) /\ C22_Used(<<".", "a">>)
    /\ PathOf(module, <<"a">>) = PathOf(module, <<".", "a">>)
    /\ disk[PathOf(module, <<"a">>)] # solo[<<"a">>]

(* What holds: ids whose paths differ from the path of every other id are  *)
(* independent of all of them, whatever the interleaving.                  *)
C22_DistinctPathsIndependent ==
    op = "register_on"
        => \A s \in SourceIds :
               (\A s2 \in SourceIds \ {s} : PathOf(module, s2) # PathOf(module, s))
                   => /\ C22_Used(s) => disk[PathOf(module, s)] = solo[s]
                      /\ sid = s => changes = ret.changes /\ err = ret.err

(* What holds: a call writes at most the artifact at the path of its id.   *)
C22_WritesOwnPathOnly ==
    [][op' = "register_on"
          => \A p \in Paths : p # PathOf(module, sid') => disk'[p] = disk[p]]_vars

------------------------------------------------------------------------------
(* C23: the latest version is authoritative.                               *)

(* The call found a history of two versions, appended by the registrations *)
(* of a schema A and then of a different schema B, and was given A again.  *)
C23_ThirdCall ==
    /\ op = "register" /\ ~tampered
    /\ Len(Versions(before)) = 2 /\ Len(sources) >= 2
    /\ ~SameMapping(sources[1], sources[2])
    /\ SameMapping(df, sources[1])

(* C23: register diffs against the last persisted version and never        *)
(* against an older one: after A and then a different B were registered,   *)
(* registering A again returns the non-empty diff from B to A and appends  *)
(* a third version whose schema equals the first.                          *)
C23_LatestAuthoritative ==
    C23_ThirdCall =>
        /\ err = "none"
        /\ ~EmptyResult
        /\ AddedNames = Names(df) \ Names(sources[2])
        /\ RemovedNames = Names(sources[2]) \ Names(df)
        /\ ChangedNames = { n \in Names(sources[2]) \cap Names(df) :
                              DTypeOf(sources[2], n) # DTypeOf(df, n) }
        /\ Len(Versions(file)) = 3
        /\ IsPrefix(Versions(before), Versions(file))
        /\ SameMapping(StoredFrame(Versions(file)[3]), StoredFrame(Versions(file)[1]))

(* A, B, A registered; the third call returned a non-empty diff.           *)
C23_Witness ==
    /\ C23_ThirdCall /\ Returned
    /\ sources[1] = <<Col("a", Int64)>>
    /\ sources[2] = <<Col("a", List(Int64))>>
    /\ ChangedNames = {"a"}
    /\ Len(Versions(file)) = 3

(* What holds: the same for drifter.register, and for drifter.schema while *)
(* the calls are made by the process that wrote the versions.              *)
C23_SameProcess ==
    (module = "drifter" \/ layout = LayoutA) => C23_LatestAuthoritative

(* What holds for drifter.schema in any process: the call compares with    *)
(* the last version only, so that what it returns as added and removed are *)
(* the names that B has not and that A has not.                            *)
C23_NamesAgainstLatest ==
    (C23_ThirdCall /\ err = "none") =>
        /\ AddedNames = Names(df) \ Names(sources[2])
        /\ RemovedNames = Names(sources[2]) \ Names(df)

------------------------------------------------------------------------------
(* C24: the hash is never the sole source of truth.                        *)

RECURSIVE Structure(_)
(* A Field of drifter.schema without its type hashes: its name, dtype, bit *)
(* width, array size, inner field and member fields.                       *)
Structure(f) ==
    [name |-> f.name, dtype |-> f.dtype, bit_width |-> f.bit_width, size |-> f.size,
     inner |-> [i \in 1..Len(f.inner) |-> Structure(f.inner[i])],
     fields |-> [i \in 1..Len(f.fields) |-> Structure(f.fields[i])]]

(* A call of drifter.schema.register that found a history and returned. *)
C24_Compared ==
    /\ module = "drifter.schema" /\ Returned /\ ~tampered
    /\ Versions(before) # <<>>

(* The latest persisted schema the call found and the schema of its frame. *)
C24_Prev == Versions(before)[Len(Versions(before))]
C24_Current == CreateSchema(df, layout)

(* C24: the differ's equality on Fields is structural equality: a column   *)
(* in both schemas is reported as changed exactly when its stored Field    *)
(* and its current Field differ in structure, whether or not their type    *)
(* hashes coincide.                                                        *)
C24_HashNotSoleTruth ==
    C24_Compared =>
        \A n \in FieldNames(C24_Prev) \cap FieldNames(C24_Current) :
            (n \in ChangedNames)
                <=> (Structure(FieldOf(C24_Prev, n)) # Structure(FieldOf(C24_Current, n)))

(* Two Fields of different structure whose hashes coincide, taken as equal. *)
C24_CollisionTakenAsEqual ==
    /\ C24_Compared
    /\ \E n \in FieldNames(C24_Prev) \cap FieldNames(C24_Current) :
          /\ Structure(FieldOf(C24_Prev, n)) # Structure(FieldOf(C24_Current, n))
          /\ FieldOf(C24_Prev, n).type_hash = FieldOf(C24_Current, n).type_hash
          /\ n \notin ChangedNames

(* Two Fields of one structure whose hashes differ, reported as changed. *)
C24_EqualTakenAsChanged ==
    /\ C24_Compared
    /\ \E n \in FieldNames(C24_Prev) \cap FieldNames(C24_Current) :
          /\ Structure(FieldOf(C24_Prev, n)) = Structure(FieldOf(C24_Current, n))
          /\ FieldOf(C24_Prev, n).type_hash # FieldOf(C24_Current, n).type_hash
          /\ n \in ChangedNames

(* What holds: while the calls are made by the process that wrote the      *)
(* latest version, the hashes of the modelled dtypes differ exactly when   *)
(* the Fields do.                                                          *)
C24_SameProcess == (layout = LayoutA) => C24_HashNotSoleTruth

(* What holds: changed is decided by the type hashes and nothing else. *)
C24_HashDecides ==
    C24_Compared =>
        \A n \in FieldNames(C24_Prev) \cap FieldNames(C24_Current) :
            (n \in ChangedNames)
                <=> (FieldOf(C24_Prev, n).type_hash # FieldOf(C24_Current, n).type_hash)

------------------------------------------------------------------------------
(* C25: an uncoordinated race loses an update.                             *)

(* register given the frame d on the artifact found detects a change. *)
C25_Detects(found, d) ==
    IF Versions(found) = <<>>
    THEN d # <<>>
    ELSE ~SameMapping(StoredFrame(Versions(found)[Len(Versions(found))]), d)

(* The call that has just ended read the artifact before another call      *)
(* saved a version, and both detected a change: the artifact it overwrote  *)
(* is one version ahead of the one it had read.                            *)
C25_Raced ==
    /\ op = "register"
    /\ Len(Versions(before)) = Len(Versions(ret.found)) + 1
    /\ IsPrefix(Versions(ret.found), Versions(before))
    /\ C25_Detects(ret.found, StoredFrame(Versions(before)[Len(Versions(before))]))
    /\ C25_Detects(ret.found, df)

(* C25: when two calls on one source id both load the history before       *)
(* either saves and both detect a change, the call that saves last raises  *)
(* nothing, returns a non-empty SchemaChange as the first did, and writes  *)
(* the history it had loaded plus its own version: the persisted history   *)
(* is no longer than the one it overwrote and the version of the other     *)
(* call is not in it.                                                      *)
C25_RaceLosesUpdate ==
    C25_Raced =>
        /\ err = "none"
        /\ ~EmptyResult
        /\ nonEmpty >= 2
        /\ Len(Versions(file)) = Len(Versions(ret.found)) + 1
        /\ IsPrefix(Versions(ret.found), Versions(file))
        /\ StoredFrame(Versions(file)[Len(Versions(file))]) = df
        /\ Len(Versions(file)) = Len(Versions(before))

(* Two calls with different frames on an absent artifact: both returned a  *)
(* non-empty SchemaChange and the history holds the version of one.        *)
C25_Witness ==
    /\ C25_Raced
    /\ ret.found = Absent
    /\ nonEmpty = 2
    /\ Len(Versions(file)) = 1
    /\ StoredFrame(Versions(before)[1]) = <<Col("a", Int64)>>
    /\ StoredFrame(Versions(file)[1]) = <<Col("b", Int64)>>

(* The same on a history of one version, for drifter.schema.register. *)
C25_WitnessSchema ==
    /\ C25_Raced
    /\ module = "drifter.schema"
    /\ Len(Versions(ret.found)) = 1
    /\ nonEmpty = 3
    /\ Len(Versions(file)) = 2
    /\ Versions(file) # Versions(before)

------------------------------------------------------------------------------
(* C26: the latest version equals the current schema after register.       *)

(* The persisted version v holds the schema of the frame d: the same       *)
(* column names, each with a structurally equal type.                      *)
C26_Holds(v, d) ==
    IF module = "drifter"
    THEN SameMapping(StoredFrame(v), d)
    ELSE /\ FieldNames(v) = Names(d)
         /\ \A n \in Names(d) :
                Structure(FieldOf(v, n)) = Structure(FieldOf(CreateSchema(d, layout), n))

(* C26: after every register call of a single writer that returns, either  *)
(* the persisted history is still empty and the frame of the call had no   *)
(* columns, or the last persisted version has exactly the column names and *)
(* structurally equal types of the frame of the call.                      *)
C26_LatestEqualsCurrent ==
    (Returned /\ ~tampered) =>
        \/ Versions(file) = <<>> /\ df = <<>>
        \/ /\ Versions(file) # <<>>
           /\ C26_Holds(Versions(file)[Len(Versions(file))], df)

(* A call returned and the last version is not the schema it was given. *)
C26_Stale ==
    /\ Returned /\ ~tampered /\ module = "drifter.schema"
    /\ Versions(file) # <<>>
    /\ EmptyResult /\ file = before
    /\ ~C26_Holds(Versions(file)[Len(Versions(file))], df)

(* What holds: the same for drifter.register, and for drifter.schema while *)
(* the calls are made by the process that wrote the latest version.        *)
C26_SameProcess ==
    (module = "drifter" \/ layout = LayoutA) => C26_LatestEqualsCurrent

(* What holds in any process: the last version has the column names of the *)
(* frame of the call.                                                      *)
C26_LatestNames ==
    (Returned /\ ~tampered /\ Versions(file) # <<>>)
        => StoredNames(Versions(file)[Len(Versions(file))]) = Names(df)

------------------------------------------------------------------------------
(* C27: no redundant versions.                                             *)

(* The column names of a persisted version and, without its hashes, the    *)
(* type of each.                                                           *)
C27_SchemaOf(v) ==
    IF module = "drifter"
    THEN [n \in Names(StoredFrame(v)) |-> DTypeOf(StoredFrame(v), n)]
    ELSE [n \in FieldNames(v) |-> Structure(FieldOf(v, n))]

(* Every two adjacent versions of the persisted history differ. *)
C27_AdjacentDiffer ==
    \A i \in 1..(Len(Versions(file)) - 1) :
        C27_SchemaOf(Versions(file)[i]) # C27_SchemaOf(Versions(file)[i + 1])

(* The first persisted version has at least one column. *)
C27_FirstHasColumns ==
    Versions(file) # <<>> => DOMAIN C27_SchemaOf(Versions(file)[1]) # {}

(* C27: after any sequence of register calls of a single writer that       *)
(* starts from an absent artifact, the schemas of every two adjacent       *)
(* versions of the persisted history differ and the first persisted        *)
(* version has at least one column.                                        *)
C27_NoRedundantVersions ==
    ~tampered => (C27_AdjacentDiffer /\ C27_FirstHasColumns)

(* A history whose first version has no columns. *)
C27_EmptyFirst ==
    /\ ~tampered /\ Versions(file) # <<>>
    /\ DOMAIN C27_SchemaOf(Versions(file)[1]) = {}

(* A history with two adjacent versions of one schema. *)
C27_Repeated ==
    /\ ~tampered /\ Len(Versions(file)) >= 2
    /\ ~C27_AdjacentDiffer

(* What holds: the same for drifter.register. *)
C27_Drifter == (module = "drifter") => C27_NoRedundantVersions

(* What holds for drifter.schema.register: adjacent versions differ while  *)
(* all calls are made by one process.                                      *)
C27_SameProcess == (~tampered /\ layout = LayoutA) => C27_AdjacentDiffer

------------------------------------------------------------------------------
(* C28: the diff reconstructs the new name set.                            *)

(* The column names of the last version of an artifact; none when it holds *)
(* no version.                                                             *)
C28_LastNames(f) ==
    IF Versions(f) = <<>> THEN {} ELSE StoredNames(Versions(f)[Len(Versions(f))])

(* C28: for every SchemaChange that register returns against the previous  *)
(* schema old and the current schema new, names(new) is names(old) minus   *)
(* removed plus added, removed is within names(old) and changed is within  *)
(* the names of both; and the names of the last persisted version after    *)
(* the call are those of the last persisted version before it minus        *)
(* removed plus added, so that the fold of the returned SchemaChanges from *)
(* the empty set is the name set of the last persisted version.            *)
C28_DiffReconstructs ==
    Returned =>
        LET old == C28_LastNames(before)
            new == Names(df)
        IN /\ new = (old \ RemovedNames) \cup AddedNames
           /\ RemovedNames \subseteq old
           /\ ChangedNames \subseteq old \cap new
           /\ C28_LastNames(file) = (old \ RemovedNames) \cup AddedNames

(* A call that returned one name in each of added, removed and changed. *)
C28_Witness ==
    /\ Returned
    /\ C28_LastNames(before) = {"a", "b"}
    /\ AddedNames = {} /\ RemovedNames = {"b"} /\ ChangedNames = {"a"}
    /\ C28_LastNames(file) = {"a"}

(* A first registration: the fold starts from the empty set. *)
C28_WitnessFirst ==
    /\ Returned /\ before = Absent
    /\ AddedNames = {"a", "b"}
    /\ C28_LastNames(file) = {"a", "b"}

------------------------------------------------------------------------------
(* C29: determinism of drifter.register.                                   *)

(* A shift of every timestamp of a history. *)
C29_Later(h) == [i \in 1..Len(h) |-> [h[i] EXCEPT !.timestamp = @ + 7]]

(* Versions put in front of a history. *)
C29_Older == { <<>>, <<NewVersion(<<Col("a", Int64)>>, 0)>>,
               <<NewVersion(<<Col("b", Int64)>>, 0),
                 NewVersion(<<Col("a", List(String)), Col("b", String)>>, 1)>> }

(* The stores that agree with the artifact f on the schema of the last     *)
(* version, or on there being no version: f with its older versions        *)
(* dropped or replaced and with its timestamps shifted; for an empty       *)
(* history the absent artifact, the unparseable one and the empty list.    *)
C29_Variants(f) ==
    IF Versions(f) = <<>>
    THEN {Absent, Garbage, HistoryFile(<<>>)}
    ELSE LET h == Versions(f)
             last == <<h[Len(h)]>>
         IN { HistoryFile(o \o l) : o \in C29_Older, l \in {last, C29_Later(last)} }
                \cup { HistoryFile(C29_Later(h)) }

(* The schema of the last version of an artifact. *)
C29_LastSchema(f) == StoredFrame(Versions(f)[Len(Versions(f))])

(* C29: what drifter.register returns and whether it writes depend only on *)
(* the frame of the call and on the schema of the last persisted version,  *)
(* or on the history being empty: on every store that agrees with the one  *)
(* the call found in the last version's schema and differs from it in      *)
(* older versions or in timestamps, the same frame gives the same          *)
(* exception or SchemaChange, a write in the same cases, and the same      *)
(* appended schema.  The store is one the process may read and write.      *)
C29_Deterministic ==
    (module = "drifter" /\ op = "register" /\ access = "rw"
        /\ before.kind # "value") =>
        \A f2 \in C29_Variants(before) :
            LET o == RegisterOutcome(f2, access, df, clock - 1)
            IN /\ o.err = err
               /\ o.changes = changes
               /\ (o.file # f2) <=> (file # before)
               /\ (file # before) =>
                      /\ C29_LastSchema(o.file) = C29_LastSchema(file)
                      /\ Len(Versions(o.file)) = Len(Versions(f2)) + 1

(* The frame of the call is that of the older of two versions: the result  *)
(* is the diff against the last one, on every variant of the store.        *)
C29_Witness ==
    /\ module = "drifter" /\ Returned
    /\ Len(Versions(before)) = 2
    /\ StoredFrame(Versions(before)[1]) = <<Col("a", Int64)>>
    /\ StoredFrame(Versions(before)[2]) = <<Col("b", Int64)>>
    /\ df = <<Col("a", Int64)>>
    /\ AddedNames = {"a"} /\ RemovedNames = {"b"}
    /\ Len(Versions(file)) = 3

(* A call on an empty history: absent, unparseable and empty-list stores   *)
(* give the same result.                                                   *)
C29_WitnessEmpty ==
    /\ module = "drifter" /\ Returned
    /\ before = Garbage
    /\ AddedNames = {"a", "b"}

------------------------------------------------------------------------------
(* C30: the adapter preserves type distinctions.                           *)

(* Two source dtypes that the Field classes tell apart by class or by      *)
(* parameter: two different ones of Date, Time, Datetime and Duration,     *)
(* Null and String, and two Categoricals of different ordering.            *)
C30_Distinguished(d1, d2) ==
    \/ /\ {d1.k, d2.k} \subseteq {"Date", "Time", "Datetime", "Duration"}
       /\ d1.k # d2.k
    \/ {d1.k, d2.k} = {"Null", "String"}
    \/ /\ d1.k = "Categorical" /\ d2.k = "Categorical"
       /\ d1.ordering # d2.ordering

(* from_polars_schema returned the Fields of the frame. *)
C30_Mapped == op = "from_polars_schema" /\ ret.tag = "fields"

(* C30: the adapter maps any two source dtypes that the Field model tells  *)
(* apart to structurally unequal Fields, so that a column that goes from   *)
(* one to the other is a changed column for a diff over Fields.            *)
C30_DistinctionsPreserved ==
    C30_Mapped =>
        \A i, j \in 1..Len(df) :
            C30_Distinguished(df[i].dtype, df[j].dtype)
                => ~FieldEq(ret.fields[i].field, ret.fields[j].field)

(* A Time and a Datetime column, mapped to equal Fields. *)
C30_TimeIsDatetime ==
    /\ C30_Mapped
    /\ df = <<Col("a", Prim("Time")), Col("b", Prim("Datetime"))>>
    /\ FieldEq(ret.fields[1].field, ret.fields[2].field)
    /\ FieldDiff(<<ret.fields[1]>>, <<[name |-> "a", field |-> ret.fields[2].field]>>)
           = FieldNoChanges

(* A Null and a String column, and two Categoricals of different ordering, *)
(* mapped to equal Fields.                                                 *)
C30_NullIsString ==
    /\ C30_Mapped
    /\ df = <<Col("a", Prim("Null")), Col("b", String)>>
    /\ FieldEq(ret.fields[1].field, ret.fields[2].field)

C30_OrderingLost ==
    /\ C30_Mapped
    /\ df = <<Col("a", Categorical("physical")), Col("b", Categorical("lexical"))>>
    /\ FieldEq(ret.fields[1].field, ret.fields[2].field)

(* What holds: a Date is kept apart from the three other dtypes of time,   *)
(* and dtypes of different kinds from each other.                          *)
C30_DateKept ==
    C30_Mapped =>
        \A i, j \in 1..Len(df) :
            (/\ df[i].dtype.k = "Date"
             /\ df[j].dtype.k \in {"Time", "Datetime", "Duration", "String", "Categorical"})
                => ~FieldEq(ret.fields[i].field, ret.fields[j].field)

====
